---- MODULE Spec2Model ----
(***************************************************************************)
(* Permission evaluation, role registry, subscription resolver, usage      *)
(* aggregator and limit enforcer of the multi-tenant SaaS backend.         *)
(*                                                                         *)
(* The relational store is modelled table by table as a set of rows; a     *)
(* service function is one action that performs all of its statements.     *)
(* Where calls overlap, a call in flight advances one store statement at a *)
(* time (the services open no transaction).                                *)
(* Opaque payload columns that no code reads (organization name,           *)
(* createdAt, joinedAt) are left out of the rows.                          *)
(***************************************************************************)
EXTENDS Integers, Sequences, FiniteSets, TLC

VARIABLES
    roles,                \* table roles
    organizations,        \* table organizations
    organizationMembers,  \* table organization_members
    subscriptionTiers,    \* table subscription_tiers
    subscriptions,        \* table subscriptions
    usageRecords,         \* table usage_records, in insertion order
    tierIdsIssued,        \* how many subscription_tiers ids defaultRandom() has issued
    now,                  \* the clock read by new Date()
    last,                 \* the last completed call: operation, arguments, outcome
    baseline,             \* the last checkUsageLimit result and the store it saw
    written,              \* the permission list last written to each role
    userPermissions,      \* matchesPermission: argument userPermissions
    requiredPermission,   \* matchesPermission: argument requiredPermission
    matchResult,          \* matchesPermission: returned value
    inFlight,             \* the overlapping calls: each caller's position and locals
    invitations,          \* table invitations
    sessions,             \* table sessions
    tokensIssued,         \* how many session tokens generateSessionToken() has issued
    rateLimitStore,       \* the rate limiter's map, by tenant
    admitted              \* requests let through in each tenant's open window

vars == << roles, organizations, organizationMembers, subscriptionTiers,
           subscriptions, usageRecords, tierIdsIssued, now, last, baseline, written,
           userPermissions, requiredPermission, matchResult, inFlight,
           invitations, sessions, tokensIssued, rateLimitStore, admitted >>

storeVars == << roles, organizations, organizationMembers, subscriptionTiers,
                subscriptions, usageRecords, tierIdsIssued, now, last, baseline,
                written >>

matchVars == << userPermissions, requiredPermission, matchResult >>

\* invitations, sessions and the rate limiter: written by their own functions only
asideVars == << invitations, sessions, tokensIssued, rateLimitStore, admitted >>

\* what a call that runs alone leaves as it is
idleVars == << matchVars, inFlight, asideVars >>

(***************************************************************************)
(* Bounds of the model.                                                    *)
(***************************************************************************)
MaxLen == 3        \* longest permission string drawn for matchesPermission
MaxGranted == 1    \* longest granted list drawn for matchesPermission

(***************************************************************************)
(* Strings are sequences of characters.                                    *)
(***************************************************************************)
Chars == {"a", ".", "*"}

Max(a, b) == IF a >= b THEN a ELSE b

SeqsUpTo(S, n) == UNION {[1..k -> S] : k \in 0..n}

Strings == SeqsUpTo(Chars, MaxLen)

Star == <<"*">>

DotStar == <<".", "*">>

Dot == <<".">>

\* String.prototype.endsWith
endsWith(s, suffix) ==
    /\ Len(s) >= Len(suffix)
    /\ SubSeq(s, Len(s) - Len(suffix) + 1, Len(s)) = suffix

\* String.prototype.startsWith
startsWith(s, prefix) ==
    /\ Len(s) >= Len(prefix)
    /\ SubSeq(s, 1, Len(prefix)) = prefix

\* perm.slice(0, -2)
sliceOffTwo(s) == SubSeq(s, 1, Max(0, Len(s) - 2))

(***************************************************************************)
(* matchesPermission: the for loop over userPermissions, from index i.     *)
(***************************************************************************)
PrefixWildcardMatch_NoDot(perm, required) ==
    /\ endsWith(perm, DotStar)
    /\ startsWith(required, sliceOffTwo(perm))

PrefixWildcardMatch(perm, required) ==
    /\ endsWith(perm, DotStar)
    /\ startsWith(required, sliceOffTwo(perm) \o Dot)

\* a loop that returns the verdict of the first permission it meets
matchesFrom_FirstOnly(perms, required, i) ==
    IF i > Len(perms) THEN FALSE
    ELSE LET perm == perms[i] IN
         \/ perm = Star
         \/ perm = required
         \/ PrefixWildcardMatch(perm, required)

RECURSIVE matchesFrom(_, _, _)
matchesFrom(perms, required, i) ==
    IF i > Len(perms) THEN FALSE
    ELSE LET perm == perms[i] IN
         IF perm = Star THEN TRUE
         ELSE IF perm = required THEN TRUE
         ELSE IF PrefixWildcardMatch(perm, required) THEN TRUE
         ELSE matchesFrom(perms, required, i + 1)

matchesPermission(perms, required) == matchesFrom(perms, required, 1)

(***************************************************************************)
(* matchesPermission applied to drawn inputs.                              *)
(***************************************************************************)
NotReturned == [returned |-> FALSE]

Returned(value) == [returned |-> TRUE, value |-> value]

InitMatch ==
    /\ userPermissions \in SeqsUpTo(Strings, MaxGranted)
    /\ requiredPermission \in Strings
    /\ matchResult = NotReturned

CallMatchesPermission ==
    /\ matchResult = NotReturned
    /\ matchResult' = Returned(matchesPermission(userPermissions, requiredPermission))
    /\ UNCHANGED << userPermissions, requiredPermission >>

(***************************************************************************)
(* Values of the store.                                                    *)
(***************************************************************************)
Null == [null |-> TRUE]            \* a query that found no row; a null result

NoId == 0                          \* SQL NULL in a uuid column; ids start at 1

NoDate == -1                       \* SQL NULL in a timestamp column; times start at 0

NoError == "none"

NoRoleName == "<null>"             \* getUserRole's null, apart from every role name

Tenants == {"t1", "t2"}

Users == {"u1", "u2"}

RoleNames == {"owner", "member"}

\* the callers whose calls may overlap
Procs == {"p1", "p2"}

\* a caller with no call in flight
Idle == [pc |-> "idle"]

Call(op, args, error, result) ==
    [op |-> op, args |-> args, error |-> error, result |-> result, at |-> now]

(***************************************************************************)
(* Role registry (services/permission.ts).                                 *)
(***************************************************************************)
RoleKey(r, tenantId, roleName) == r.tenantId = tenantId /\ r.name = roleName

\* select from roles where tenantId and name
roleRows(rs, tenantId, roleName) == {r \in rs : RoleKey(r, tenantId, roleName)}

\* the Role object a function returns for a row (or null)
RoleOf(rows) == IF rows = {} THEN Null ELSE CHOOSE r \in rows : TRUE

\* a defineRole that inserts without looking for the role
defineRoleRows_InsertsAlways(rs, tenantId, roleName, permissions, isDefault) ==
    rs \cup {[tenantId |-> tenantId, name |-> roleName,
              permissions |-> permissions, isDefault |-> isDefault]}

\* defineRole: the table after the select and the update or insert
defineRoleRows(rs, tenantId, roleName, permissions, isDefault) ==
    IF roleRows(rs, tenantId, roleName) # {}
    THEN {IF RoleKey(r, tenantId, roleName)
          THEN [r EXCEPT !.permissions = permissions, !.isDefault = isDefault]
          ELSE r : r \in rs}
    ELSE rs \cup {[tenantId |-> tenantId, name |-> roleName,
                   permissions |-> permissions, isDefault |-> isDefault]}

\* history: the permission list last written to a role by defineRole or
\* updateRolePermissions, and the different list that write replaced, if any
writtenAfter(w, tenantId, roleName, permissions) ==
    LET before == {x \in w : RoleKey(x, tenantId, roleName)}
        replaced == UNION {IF x.permissions = permissions THEN x.replaced
                           ELSE {x.permissions} : x \in before}
    IN  (w \ before) \cup {[tenantId |-> tenantId, name |-> roleName,
                            permissions |-> permissions, replaced |-> replaced]}

DefineRole(tenantId, roleName, permissions, isDefault) ==
    /\ roles' = defineRoleRows(roles, tenantId, roleName, permissions, isDefault)
    /\ written' = writtenAfter(written, tenantId, roleName, permissions)
    /\ last' = Call("defineRole", <<tenantId, roleName, permissions, isDefault>>,
                    NoError, RoleOf(roleRows(roles', tenantId, roleName)))
    /\ UNCHANGED << organizations, organizationMembers, subscriptionTiers,
                    subscriptions, usageRecords, tierIdsIssued, now, baseline >>

GetRole(tenantId, roleName) ==
    /\ last' = Call("getRole", <<tenantId, roleName>>, NoError,
                    RoleOf(roleRows(roles, tenantId, roleName)))
    /\ UNCHANGED << roles, written, organizations, organizationMembers,
                    subscriptionTiers, subscriptions, usageRecords, tierIdsIssued,
                    now, baseline >>

GetRoles(tenantId) ==
    /\ last' = Call("getRoles", <<tenantId>>, NoError,
                    {r \in roles : r.tenantId = tenantId})
    /\ UNCHANGED << roles, written, organizations, organizationMembers,
                    subscriptionTiers, subscriptions, usageRecords, tierIdsIssued,
                    now, baseline >>

DeleteRole(tenantId, roleName) ==
    /\ roles' = {r \in roles : ~RoleKey(r, tenantId, roleName)}
    /\ written' = {x \in written : ~RoleKey(x, tenantId, roleName)}
    /\ last' = Call("deleteRole", <<tenantId, roleName>>, NoError, Null)
    /\ UNCHANGED << organizations, organizationMembers, subscriptionTiers,
                    subscriptions, usageRecords, tierIdsIssued, now, baseline >>

\* a setDefaultRole that leaves the defaults it finds
clearDefaults_Keeps(rs, tenantId) == rs

\* setDefaultRole, first statement: unset every default of the tenant
clearDefaults(rs, tenantId) ==
    {IF r.tenantId = tenantId THEN [r EXCEPT !.isDefault = FALSE] ELSE r : r \in rs}

\* setDefaultRole, second statement: set the named role as default
markDefault(rs, tenantId, roleName) ==
    {IF RoleKey(r, tenantId, roleName) THEN [r EXCEPT !.isDefault = TRUE] ELSE r : r \in rs}

\* a setDefaultRole that undoes its clear when the role is missing
SetDefaultRole_RollsBack(tenantId, roleName) ==
    LET cleared == clearDefaults(roles, tenantId)
        before == {r.name : r \in {x \in roles : x.tenantId = tenantId /\ x.isDefault}}
        missing == roleRows(cleared, tenantId, roleName) = {}
    IN
    /\ roles' = IF missing THEN roles ELSE markDefault(cleared, tenantId, roleName)
    /\ last' = Call("setDefaultRole", <<tenantId, roleName, before>>,
                    IF missing THEN "ROLE_NOT_FOUND" ELSE NoError, Null)
    /\ UNCHANGED << written, organizations, organizationMembers, subscriptionTiers,
                    subscriptions, usageRecords, tierIdsIssued, now, baseline >>

\* setDefaultRole (args[3]: the names of the tenant's default roles before it)
SetDefaultRole(tenantId, roleName) ==
    LET cleared == clearDefaults(roles, tenantId)
        before == {r.name : r \in {x \in roles : x.tenantId = tenantId /\ x.isDefault}}
    IN
    /\ roles' = markDefault(cleared, tenantId, roleName)
    /\ last' = Call("setDefaultRole", <<tenantId, roleName, before>>,
                    IF roleRows(cleared, tenantId, roleName) = {}
                    THEN "ROLE_NOT_FOUND" ELSE NoError, Null)
    /\ UNCHANGED << written, organizations, organizationMembers, subscriptionTiers,
                    subscriptions, usageRecords, tierIdsIssued, now, baseline >>

\* getDefaultRole: limit(1) returns any one of the rows flagged default
GetDefaultRole(tenantId) ==
    LET found == {r \in roles : r.tenantId = tenantId /\ r.isDefault} IN
    /\ \E result \in (IF found = {} THEN {Null} ELSE found) :
           last' = Call("getDefaultRole", <<tenantId>>, NoError, result)
    /\ UNCHANGED << roles, written, organizations, organizationMembers,
                    subscriptionTiers, subscriptions, usageRecords, tierIdsIssued,
                    now, baseline >>

\* getUserRole: membership?.role || null
getUserRole(members, userId, orgId) ==
    LET found == {m \in members : m.userId = userId /\ m.organizationId = orgId} IN
    IF found = {} THEN NoRoleName
    ELSE LET membership == CHOOSE m \in found : TRUE IN
         IF membership.role = "" THEN NoRoleName ELSE membership.role

GetUserRole(userId, orgId) ==
    /\ last' = Call("getUserRole", <<userId, orgId>>, NoError,
                    getUserRole(organizationMembers, userId, orgId))
    /\ UNCHANGED << roles, written, organizations, organizationMembers,
                    subscriptionTiers, subscriptions, usageRecords, tierIdsIssued,
                    now, baseline >>

checkPermission_IgnoresTenant(rs, members, userId, orgId, permission, tenantId) ==
    LET roleName == getUserRole(members, userId, orgId) IN
    IF roleName = NoRoleName THEN FALSE
    ELSE LET found == {r \in rs : r.name = roleName} IN
         IF found = {} THEN FALSE
         ELSE \E r \in found : matchesPermission(r.permissions, permission)

\* checkPermission
checkPermission(rs, members, userId, orgId, permission, tenantId) ==
    LET roleName == getUserRole(members, userId, orgId) IN
    IF roleName = NoRoleName THEN FALSE
    ELSE LET role == RoleOf(roleRows(rs, tenantId, roleName)) IN
         IF role = Null THEN FALSE
         ELSE matchesPermission(role.permissions, permission)

CheckPermission(userId, orgId, permission, tenantId) ==
    /\ last' = Call("checkPermission", <<userId, orgId, permission, tenantId>>, NoError,
                    checkPermission(roles, organizationMembers, userId, orgId,
                                    permission, tenantId))
    /\ UNCHANGED << roles, written, organizations, organizationMembers,
                    subscriptionTiers, subscriptions, usageRecords, tierIdsIssued,
                    now, baseline >>

updateRolePermissionsRows_AnyTenant(rs, tenantId, roleName, permissions) ==
    {IF r.name = roleName
     THEN [r EXCEPT !.permissions = permissions] ELSE r : r \in rs}

\* updateRolePermissions: the table after the update statement
updateRolePermissionsRows(rs, tenantId, roleName, permissions) ==
    {IF RoleKey(r, tenantId, roleName)
     THEN [r EXCEPT !.permissions = permissions] ELSE r : r \in rs}

UpdateRolePermissions(tenantId, roleName, permissions) ==
    LET found == roleRows(roles, tenantId, roleName) IN
    /\ roles' = updateRolePermissionsRows(roles, tenantId, roleName, permissions)
    /\ written' = IF found = {} THEN written
                  ELSE writtenAfter(written, tenantId, roleName, permissions)
    /\ last' = IF found = {}
               THEN Call("updateRolePermissions", <<tenantId, roleName, permissions>>,
                         "ROLE_NOT_FOUND", Null)
               ELSE Call("updateRolePermissions", <<tenantId, roleName, permissions>>,
                         NoError, RoleOf(roleRows(roles', tenantId, roleName)))
    /\ UNCHANGED << organizations, organizationMembers, subscriptionTiers,
                    subscriptions, usageRecords, tierIdsIssued, now, baseline >>

(***************************************************************************)
(* Organizations (services/permission.ts, organization section).           *)
(***************************************************************************)
MaxOrgs == 1       \* organizations created by createOrganization

\* createOrganization: insert the organization, then its owner as first member
CreateOrganization(ownerId, tenantId, defaultRole) ==
    LET id == Cardinality(organizations) + 1 IN
    /\ Cardinality(organizations) < MaxOrgs
    /\ organizations' = organizations \cup
           {[id |-> id, tenantId |-> tenantId, ownerId |-> ownerId,
             subscriptionId |-> NoId]}
    /\ organizationMembers' = organizationMembers \cup
           {[organizationId |-> id, userId |-> ownerId, role |-> defaultRole]}
    /\ last' = Call("createOrganization", <<ownerId, tenantId, defaultRole>>,
                    NoError, id)
    /\ UNCHANGED << roles, written, subscriptionTiers, subscriptions, usageRecords,
                    tierIdsIssued, now, baseline >>

(***************************************************************************)
(* Subscription resolver (services/auth.test.ts, lines 246-618).            *)
(***************************************************************************)
MaxTiers == 2      \* subscription tier rows ever inserted

MaxTime == 1       \* the clock runs from 0 to MaxTime

Unlimited == -1    \* checkLimit's limit when the tier has no key for the metric

\* a select by id that leaves the tenant out
tierRows_AnyTenant(tiers, tierId, tenantId) == {t \in tiers : t.id = tierId}

\* select from subscription_tiers where id and tenantId (getTier)
tierRows(tiers, tierId, tenantId) ==
    {t \in tiers : t.id = tierId /\ t.tenantId = tenantId}

\* the SubscriptionTier object returned for a row (or null)
TierOf(rows) == IF rows = {} THEN Null ELSE CHOOSE t \in rows : TRUE

getTier(tiers, tierId, tenantId) == TierOf(tierRows(tiers, tierId, tenantId))

\* the Subscription object: the row's columns with the tier's features and limits
SubscriptionOf(row, status, tier) ==
    [id |-> row.id, organizationId |-> row.organizationId, tierId |-> row.tierId,
     status |-> status, startDate |-> row.startDate,
     expirationDate |-> row.expirationDate,
     features |-> tier.features, limits |-> tier.limits]

\* a defineTier that inserts without looking for the tier
DefineTier_InsertsAlways(tenantId, name, features, limits) ==
    /\ tierIdsIssued < MaxTiers
    /\ tierIdsIssued' = tierIdsIssued + 1
    /\ subscriptionTiers' = subscriptionTiers \cup
           {[id |-> tierIdsIssued', tenantId |-> tenantId, name |-> name,
             features |-> features, limits |-> limits]}
    /\ last' = Call("defineTier", <<tenantId, name, features, limits>>,
                    NoError, getTier(subscriptionTiers', tierIdsIssued', tenantId))
    /\ baseline' = Null
    /\ UNCHANGED << roles, written, organizations, organizationMembers, subscriptions,
                    usageRecords, now >>

\* defineTier: update the first row with the tenant and name, or insert a row
DefineTier(tenantId, name, features, limits) ==
    LET existing == {t \in subscriptionTiers : t.tenantId = tenantId /\ t.name = name} IN
    /\ IF existing # {}
       THEN \E first \in existing :
                /\ subscriptionTiers' =
                       {IF t.id = first.id
                        THEN [t EXCEPT !.features = features, !.limits = limits]
                        ELSE t : t \in subscriptionTiers}
                /\ tierIdsIssued' = tierIdsIssued
                /\ last' = Call("defineTier", <<tenantId, name, features, limits>>,
                                NoError, getTier(subscriptionTiers', first.id, tenantId))
       ELSE /\ tierIdsIssued < MaxTiers
            /\ tierIdsIssued' = tierIdsIssued + 1
            /\ subscriptionTiers' = subscriptionTiers \cup
                   {[id |-> tierIdsIssued', tenantId |-> tenantId, name |-> name,
                     features |-> features, limits |-> limits]}
            /\ last' = Call("defineTier", <<tenantId, name, features, limits>>,
                            NoError, getTier(subscriptionTiers', tierIdsIssued', tenantId))
    /\ baseline' = Null
    /\ UNCHANGED << roles, written, organizations, organizationMembers, subscriptions,
                    usageRecords, now >>

GetTier(tierId, tenantId) ==
    /\ last' = Call("getTier", <<tierId, tenantId>>, NoError,
                    getTier(subscriptionTiers, tierId, tenantId))
    /\ UNCHANGED << roles, written, organizations, organizationMembers,
                    subscriptionTiers, subscriptions, usageRecords, tierIdsIssued,
                    now, baseline >>

GetTiers(tenantId) ==
    /\ last' = Call("getTiers", <<tenantId>>, NoError,
                    {t \in subscriptionTiers : t.tenantId = tenantId})
    /\ UNCHANGED << roles, written, organizations, organizationMembers,
                    subscriptionTiers, subscriptions, usageRecords, tierIdsIssued,
                    now, baseline >>

\* deleteTier: subscriptions.tier_id references subscription_tiers.id with
\* ON DELETE no action, so deleting a tier a subscription references fails in
\* the store and deletes nothing
DeleteTier(tierId, tenantId) ==
    LET doomed == tierRows(subscriptionTiers, tierId, tenantId)
        referenced == \E t \in doomed : \E x \in subscriptions : x.tierId = t.id
    IN
    /\ subscriptionTiers' = IF referenced THEN subscriptionTiers
                            ELSE subscriptionTiers \ doomed
    /\ last' = Call("deleteTier", <<tierId, tenantId>>,
                    IF referenced THEN "STORE_FOREIGN_KEY" ELSE NoError, Null)
    /\ baseline' = Null
    /\ UNCHANGED << roles, written, organizations, organizationMembers, subscriptions,
                    usageRecords, tierIdsIssued, now >>

\* select from organizations where id and tenant_id, limit 1
getOrganization(orgs, orgId, tenantId) ==
    LET found == {o \in orgs : o.id = orgId /\ o.tenantId = tenantId}
    IN  IF found = {} THEN Null ELSE CHOOSE o \in found : TRUE

GetOrganization(orgId, tenantId) ==
    /\ last' = Call("getOrganization", <<orgId, tenantId>>, NoError,
                    getOrganization(organizations, orgId, tenantId))
    /\ UNCHANGED << roles, written, organizations, organizationMembers,
                    subscriptionTiers, subscriptions, usageRecords, tierIdsIssued,
                    now, baseline >>

\* an update of organizations that matches no row
setSubscriptionId_NoRow(orgs, orgId, subscriptionId) == orgs

\* update organizations set subscriptionId where id
setSubscriptionId(orgs, orgId, subscriptionId) ==
    {IF o.id = orgId THEN [o EXCEPT !.subscriptionId = subscriptionId] ELSE o : o \in orgs}

\* a subscribe that never looks for the organization's row
Subscribe_InsertsAgain(orgId, tierId, tenantId, expirationDate) ==
    LET tier == getTier(subscriptionTiers, tierId, tenantId)
        found == {x \in subscriptions : x.organizationId = orgId}
        args == <<orgId, tierId, tenantId, expirationDate, {x.id : x \in found}>>
        subscription == [id |-> Cardinality(subscriptions) + 1,
                         organizationId |-> orgId, tierId |-> tierId,
                         status |-> "active", startDate |-> now,
                         expirationDate |-> expirationDate]
    IN
    /\ \E o \in organizations : o.id = orgId
    /\ tier # Null
    /\ subscriptions' = subscriptions \cup {subscription}
    /\ organizations' = setSubscriptionId(organizations, orgId, subscription.id)
    /\ last' = Call("subscribe", args, NoError,
                    SubscriptionOf(subscription, subscription.status, tier))
    /\ baseline' = Null
    /\ UNCHANGED << roles, written, organizationMembers, subscriptionTiers, usageRecords,
                    tierIdsIssued, now >>

\* subscribe; the organization exists (subscriptions.organization_id is a foreign
\* key); the call is recorded with the ids of the rows the organization had
\* before it
Subscribe(orgId, tierId, tenantId, expirationDate) ==
    LET tier == getTier(subscriptionTiers, tierId, tenantId)
        found == {x \in subscriptions : x.organizationId = orgId}
        args == <<orgId, tierId, tenantId, expirationDate, {x.id : x \in found}>>
    IN
    /\ \E o \in organizations : o.id = orgId
    /\ IF tier = Null
       THEN /\ last' = Call("subscribe", args, "TIER_NOT_FOUND", Null)
            /\ UNCHANGED << subscriptions, organizations, baseline >>
       ELSE /\ IF found # {}
               THEN \E existing \in found :
                    LET updated == [existing EXCEPT !.tierId = tierId,
                                                    !.status = "active",
                                                    !.startDate = now,
                                                    !.expirationDate = expirationDate]
                    IN  /\ subscriptions' = (subscriptions \ {existing}) \cup {updated}
                        /\ organizations' = setSubscriptionId(organizations, orgId, updated.id)
                        /\ last' = Call("subscribe", args, NoError,
                                        SubscriptionOf(updated, updated.status, tier))
               ELSE LET subscription == [id |-> Cardinality(subscriptions) + 1,
                                         organizationId |-> orgId, tierId |-> tierId,
                                         status |-> "active", startDate |-> now,
                                         expirationDate |-> expirationDate]
                    IN  /\ subscriptions' = subscriptions \cup {subscription}
                        /\ organizations' =
                               setSubscriptionId(organizations, orgId, subscription.id)
                        /\ last' = Call("subscribe", args, NoError,
                                        SubscriptionOf(subscription, subscription.status, tier))
            /\ baseline' = Null
    /\ UNCHANGED << roles, written, organizationMembers, subscriptionTiers, usageRecords,
                    tierIdsIssued, now >>

\* an updateSubscription that also sets the status to active
UpdateSubscription_Reactivates(subscriptionId, newTierId, tenantId) ==
    LET tier == getTier(subscriptionTiers, newTierId, tenantId)
        found == {x \in subscriptions : x.id = subscriptionId}
        args == <<subscriptionId, newTierId, tenantId>>
    IN
    /\ IF tier = Null
       THEN /\ last' = Call("updateSubscription", args, "TIER_NOT_FOUND", Null)
            /\ UNCHANGED << subscriptions, baseline >>
       ELSE IF found = {}
       THEN /\ last' = Call("updateSubscription", args, "SUBSCRIPTION_NOT_FOUND", Null)
            /\ UNCHANGED << subscriptions, baseline >>
       ELSE /\ subscriptions' = {IF x.id = subscriptionId
                                 THEN [x EXCEPT !.tierId = newTierId, !.startDate = now,
                                                !.status = "active",
                                                !.expirationDate = NoDate]
                                 ELSE x : x \in subscriptions}
            /\ \E updated \in {x \in subscriptions' : x.id = subscriptionId} :
                   last' = Call("updateSubscription", args, NoError,
                                SubscriptionOf(updated, updated.status, tier))
            /\ baseline' = Null
    /\ UNCHANGED << roles, written, organizations, organizationMembers,
                    subscriptionTiers, usageRecords, tierIdsIssued, now >>

\* an updateSubscription that writes the row before it looks the tier up
UpdateSubscription_WritesFirst(subscriptionId, newTierId, tenantId) ==
    LET tier == getTier(subscriptionTiers, newTierId, tenantId)
        found == {x \in subscriptions : x.id = subscriptionId}
        args == <<subscriptionId, newTierId, tenantId>>
    IN
    /\ subscriptions' = {IF x.id = subscriptionId
                         THEN [x EXCEPT !.tierId = newTierId, !.startDate = now]
                         ELSE x : x \in subscriptions}
    /\ IF found = {}
       THEN last' = Call("updateSubscription", args, "SUBSCRIPTION_NOT_FOUND", Null)
       ELSE IF tier = Null
       THEN last' = Call("updateSubscription", args, "TIER_NOT_FOUND", Null)
       ELSE \E updated \in {x \in subscriptions' : x.id = subscriptionId} :
                last' = Call("updateSubscription", args, NoError,
                             SubscriptionOf(updated, updated.status, tier))
    /\ baseline' = Null
    /\ UNCHANGED << roles, written, organizations, organizationMembers,
                    subscriptionTiers, usageRecords, tierIdsIssued, now >>

\* updateSubscription: the update statement selects the row by its id alone
UpdateSubscription(subscriptionId, newTierId, tenantId) ==
    LET tier == getTier(subscriptionTiers, newTierId, tenantId)
        found == {x \in subscriptions : x.id = subscriptionId}
        args == <<subscriptionId, newTierId, tenantId>>
    IN
    /\ IF tier = Null
       THEN /\ last' = Call("updateSubscription", args, "TIER_NOT_FOUND", Null)
            /\ UNCHANGED << subscriptions, baseline >>
       ELSE IF found = {}
       THEN /\ last' = Call("updateSubscription", args, "SUBSCRIPTION_NOT_FOUND", Null)
            /\ UNCHANGED << subscriptions, baseline >>
       ELSE /\ subscriptions' = {IF x.id = subscriptionId
                                 THEN [x EXCEPT !.tierId = newTierId, !.startDate = now]
                                 ELSE x : x \in subscriptions}
            /\ \E updated \in {x \in subscriptions' : x.id = subscriptionId} :
                   last' = Call("updateSubscription", args, NoError,
                                SubscriptionOf(updated, updated.status, tier))
            /\ baseline' = Null
    /\ UNCHANGED << roles, written, organizations, organizationMembers,
                    subscriptionTiers, usageRecords, tierIdsIssued, now >>

\* cancelSubscription
CancelSubscription(subscriptionId) ==
    LET found == {x \in subscriptions : x.id = subscriptionId} IN
    /\ IF found = {}
       THEN /\ last' = Call("cancelSubscription", <<subscriptionId>>,
                            "SUBSCRIPTION_NOT_FOUND", Null)
            /\ UNCHANGED << subscriptions, organizations, baseline >>
       ELSE /\ subscriptions' = {IF x.id = subscriptionId
                                 THEN [x EXCEPT !.status = "cancelled"]
                                 ELSE x : x \in subscriptions}
            /\ \E subscription \in found :
                   organizations' =
                       setSubscriptionId(organizations, subscription.organizationId, NoId)
            /\ last' = Call("cancelSubscription", <<subscriptionId>>, NoError, Null)
            /\ baseline' = Null
    /\ UNCHANGED << roles, written, organizationMembers, subscriptionTiers, usageRecords,
                    tierIdsIssued, now >>

\* an expiry test that forgets the status
isPastExpiration_AnyStatus(subscription, clock) ==
    /\ subscription.expirationDate # NoDate
    /\ clock > subscription.expirationDate

\* getSubscriptionStatus: is the row to be marked expired at this time
isPastExpiration(subscription, clock) ==
    /\ subscription.expirationDate # NoDate
    /\ clock > subscription.expirationDate
    /\ subscription.status = "active"

\* getSubscriptionStatus: the rows it marks expired (none when it returns early)
rowsToExpire(subs, tiers, clock, orgId, tenantId) ==
    {x \in subs : /\ x.organizationId = orgId
                  /\ getTier(tiers, x.tierId, tenantId) # Null
                  /\ isPastExpiration(x, clock)}

\* a getSubscriptionStatus that reports the expiry without storing it
getSubscriptionStatusRows_NotStored(subs, tiers, clock, orgId, tenantId) == subs

\* getSubscriptionStatus: the subscriptions table after the call
getSubscriptionStatusRows(subs, tiers, clock, orgId, tenantId) ==
    {IF x \in rowsToExpire(subs, tiers, clock, orgId, tenantId)
     THEN [x EXCEPT !.status = "expired"] ELSE x : x \in subs}

getSubscriptionStatus_NeverExpires(subs, tiers, clock, orgId, tenantId) ==
    LET found == {x \in subs : x.organizationId = orgId} IN
    IF found = {} THEN Null
    ELSE LET subscription == CHOOSE x \in found : TRUE
             tier == getTier(tiers, subscription.tierId, tenantId)
         IN  IF tier = Null THEN Null
             ELSE SubscriptionOf(subscription, subscription.status, tier)

\* getSubscriptionStatus: the returned Subscription (or null)
getSubscriptionStatus(subs, tiers, clock, orgId, tenantId) ==
    LET found == {x \in subs : x.organizationId = orgId} IN
    IF found = {} THEN Null
    ELSE LET subscription == CHOOSE x \in found : TRUE
             tier == getTier(tiers, subscription.tierId, tenantId)
         IN  IF tier = Null THEN Null
             ELSE IF isPastExpiration(subscription, clock)
             THEN SubscriptionOf(subscription, "expired", tier)
             ELSE SubscriptionOf(subscription, subscription.status, tier)

GetSubscriptionStatus(orgId, tenantId) ==
    /\ subscriptions' =
           getSubscriptionStatusRows(subscriptions, subscriptionTiers, now, orgId, tenantId)
    /\ last' = Call("getSubscriptionStatus", <<orgId, tenantId>>, NoError,
                    getSubscriptionStatus(subscriptions, subscriptionTiers, now,
                                          orgId, tenantId))
    /\ baseline' = IF subscriptions' = subscriptions THEN baseline ELSE Null
    /\ UNCHANGED << roles, written, organizations, organizationMembers,
                    subscriptionTiers, usageRecords, tierIdsIssued, now >>

\* checkFeatureAccess: the returned boolean
checkFeatureAccess(subs, tiers, clock, orgId, featureName, tenantId) ==
    LET subscription == getSubscriptionStatus(subs, tiers, clock, orgId, tenantId) IN
    IF subscription = Null THEN FALSE
    ELSE IF subscription.status # "active" THEN FALSE
    ELSE featureName \in subscription.features

CheckFeatureAccess(orgId, featureName, tenantId) ==
    /\ subscriptions' =
           getSubscriptionStatusRows(subscriptions, subscriptionTiers, now, orgId, tenantId)
    /\ last' = Call("checkFeatureAccess", <<orgId, featureName, tenantId>>, NoError,
                    checkFeatureAccess(subscriptions, subscriptionTiers, now,
                                       orgId, featureName, tenantId))
    /\ baseline' = IF subscriptions' = subscriptions THEN baseline ELSE Null
    /\ UNCHANGED << roles, written, organizations, organizationMembers,
                    subscriptionTiers, usageRecords, tierIdsIssued, now >>

LimitCheck(withinLimit, limit, usage) ==
    [withinLimit |-> withinLimit, limit |-> limit, usage |-> usage]

\* checkLimit: the returned object
checkLimit(subs, tiers, clock, orgId, limitName, currentUsage, tenantId) ==
    LET subscription == getSubscriptionStatus(subs, tiers, clock, orgId, tenantId) IN
    IF subscription = Null THEN LimitCheck(FALSE, 0, currentUsage)
    ELSE IF subscription.status # "active" THEN LimitCheck(FALSE, 0, currentUsage)
    ELSE IF limitName \notin DOMAIN subscription.limits
    THEN LimitCheck(TRUE, Unlimited, currentUsage)
    ELSE LimitCheck(currentUsage <= subscription.limits[limitName],
                    subscription.limits[limitName], currentUsage)

CheckLimit(orgId, limitName, currentUsage, tenantId) ==
    /\ subscriptions' =
           getSubscriptionStatusRows(subscriptions, subscriptionTiers, now, orgId, tenantId)
    /\ last' = Call("checkLimit", <<orgId, limitName, currentUsage, tenantId>>, NoError,
                    checkLimit(subscriptions, subscriptionTiers, now, orgId, limitName,
                               currentUsage, tenantId))
    /\ baseline' = IF subscriptions' = subscriptions THEN baseline ELSE Null
    /\ UNCHANGED << roles, written, organizations, organizationMembers,
                    subscriptionTiers, usageRecords, tierIdsIssued, now >>

\* time passes
Tick ==
    /\ now < MaxTime
    /\ now' = now + 1
    /\ UNCHANGED << roles, written, organizations, organizationMembers,
                    subscriptionTiers, subscriptions, usageRecords, tierIdsIssued,
                    last, baseline >>

(***************************************************************************)
(* Usage aggregator and limit enforcer (services/permission.ts, 569-817).  *)
(***************************************************************************)
MaxRecords == 1    \* usage records held by the table at a time

\* recordUsage; the organization exists (usage_records.organization_id is a
\* foreign key)
RecordUsage(orgId, tenantId, metricName, quantity) ==
    LET record == [organizationId |-> orgId, tenantId |-> tenantId,
                   metricName |-> metricName, quantity |-> quantity,
                   timestamp |-> now]
    IN
    /\ \E o \in organizations : o.id = orgId
    /\ Len(usageRecords) < MaxRecords
    /\ usageRecords' = Append(usageRecords, record)
    /\ last' = Call("recordUsage", <<orgId, tenantId, metricName, quantity>>,
                    NoError, record)
    /\ UNCHANGED << roles, written, organizations, organizationMembers,
                    subscriptionTiers, subscriptions, tierIdsIssued, now, baseline >>

\* records.reduce((sum, record) => sum + record.quantity, 0)
RECURSIVE sumQuantity(_)
sumQuantity(records) ==
    IF records = <<>> THEN 0
    ELSE records[1].quantity + sumQuantity(Tail(records))

\* a where clause without the metric
usageMatches_AnyMetric(r, orgId, tenantId, metricName, startDate, endDate) ==
    /\ r.organizationId = orgId
    /\ r.tenantId = tenantId
    /\ startDate # NoDate => r.timestamp >= startDate
    /\ endDate # NoDate => r.timestamp <= endDate

\* a where clause whose window leaves its end out
usageMatches_OpenEnd(r, orgId, tenantId, metricName, startDate, endDate) ==
    /\ r.organizationId = orgId
    /\ r.tenantId = tenantId
    /\ r.metricName = metricName
    /\ startDate # NoDate => r.timestamp >= startDate
    /\ endDate # NoDate => r.timestamp < endDate

\* getUsage: the where clause; startDate and endDate filter when given
usageMatches(r, orgId, tenantId, metricName, startDate, endDate) ==
    /\ r.organizationId = orgId
    /\ r.tenantId = tenantId
    /\ r.metricName = metricName
    /\ startDate # NoDate => r.timestamp >= startDate
    /\ endDate # NoDate => r.timestamp <= endDate

\* orderBy(timestamp): a row goes behind the rows that are not later than it
insertByTimestamp(sorted, r) ==
    LET k == Cardinality({i \in DOMAIN sorted : sorted[i].timestamp <= r.timestamp})
    IN  SubSeq(sorted, 1, k) \o <<r>> \o SubSeq(sorted, k + 1, Len(sorted))

\* orderBy(timestamp), rows of one timestamp in the order of their insertion
RECURSIVE orderByTimestamp(_)
orderByTimestamp(records) ==
    IF records = <<>> THEN <<>>
    ELSE insertByTimestamp(orderByTimestamp(SubSeq(records, 1, Len(records) - 1)),
                           records[Len(records)])

\* getUsage: the matching rows ordered by timestamp, and their total
getUsage(records, orgId, tenantId, metricName, startDate, endDate) ==
    LET matching(r) == usageMatches(r, orgId, tenantId, metricName, startDate, endDate)
        selected == orderByTimestamp(SelectSeq(records, matching))
    IN  [total |-> sumQuantity(selected), records |-> selected]

GetUsage(orgId, tenantId, metricName, startDate, endDate) ==
    /\ last' = Call("getUsage", <<orgId, tenantId, metricName, startDate, endDate>>,
                    NoError,
                    getUsage(usageRecords, orgId, tenantId, metricName, startDate, endDate))
    /\ UNCHANGED << roles, written, organizations, organizationMembers,
                    subscriptionTiers, subscriptions, usageRecords, tierIdsIssued,
                    now, baseline >>

\* the sequence as a set of its elements
Elements(records) == {records[i] : i \in DOMAIN records}

\* a where clause without the tenant
aggregatedMatches_AnyTenant(r, tenantId, metricName, startDate, endDate) ==
    /\ r.metricName = metricName
    /\ startDate # NoDate => r.timestamp >= startDate
    /\ endDate # NoDate => r.timestamp <= endDate

\* getAggregatedUsage: the where clause
aggregatedMatches(r, tenantId, metricName, startDate, endDate) ==
    /\ r.tenantId = tenantId
    /\ r.metricName = metricName
    /\ startDate # NoDate => r.timestamp >= startDate
    /\ endDate # NoDate => r.timestamp <= endDate

\* getAggregatedUsage: the total and one entry per organization among the rows
\* (the rows come in no stated order, so neither do the entries)
getAggregatedUsage(records, tenantId, metricName, startDate, endDate) ==
    LET matching(r) == aggregatedMatches(r, tenantId, metricName, startDate, endDate)
        selected == SelectSeq(records, matching)
        of(orgId) == LET mine(r) == r.organizationId = orgId IN SelectSeq(selected, mine)
    IN  [total |-> sumQuantity(selected),
         byOrganization |->
             {[organizationId |-> orgId, total |-> sumQuantity(of(orgId))] :
                  orgId \in {r.organizationId : r \in Elements(selected)}}]

GetAggregatedUsage(tenantId, metricName, startDate, endDate) ==
    /\ last' = Call("getAggregatedUsage", <<tenantId, metricName, startDate, endDate>>,
                    NoError,
                    getAggregatedUsage(usageRecords, tenantId, metricName,
                                       startDate, endDate))
    /\ UNCHANGED << roles, written, organizations, organizationMembers,
                    subscriptionTiers, subscriptions, usageRecords, tierIdsIssued,
                    now, baseline >>

\* getAllUsageMetrics: the where clause
allMetricsMatches(r, orgId, tenantId, startDate, endDate) ==
    /\ r.organizationId = orgId
    /\ r.tenantId = tenantId
    /\ startDate # NoDate => r.timestamp >= startDate
    /\ endDate # NoDate => r.timestamp <= endDate

\* getAllUsageMetrics: one entry per metric name among the rows
getAllUsageMetrics(records, orgId, tenantId, startDate, endDate) ==
    LET matching(r) == allMetricsMatches(r, orgId, tenantId, startDate, endDate)
        selected == SelectSeq(records, matching)
        of(metricName) == LET mine(r) == r.metricName = metricName
                          IN  SelectSeq(selected, mine)
    IN  {[metricName |-> metricName, total |-> sumQuantity(of(metricName))] :
             metricName \in {r.metricName : r \in Elements(selected)}}

GetAllUsageMetrics(orgId, tenantId, startDate, endDate) ==
    /\ last' = Call("getAllUsageMetrics", <<orgId, tenantId, startDate, endDate>>,
                    NoError,
                    getAllUsageMetrics(usageRecords, orgId, tenantId, startDate, endDate))
    /\ UNCHANGED << roles, written, organizations, organizationMembers,
                    subscriptionTiers, subscriptions, usageRecords, tierIdsIssued,
                    now, baseline >>

\* getCurrentUsage: periodStart || new Date(0)
getCurrentUsage(records, orgId, tenantId, metricName, periodStart) ==
    LET startDate == IF periodStart = NoDate THEN 0 ELSE periodStart IN
    getUsage(records, orgId, tenantId, metricName, startDate, NoDate).total

remainingOf_NoFloor(limit, usage) ==
    IF limit = Unlimited THEN Unlimited ELSE limit - usage

remainingOf_Swapped(limit, usage) ==
    IF limit = Unlimited THEN Unlimited ELSE Max(0, usage - limit)

\* checkUsageLimit: limit === -1 ? -1 : Math.max(0, limit - usage)
remainingOf(limit, usage) ==
    IF limit = Unlimited THEN Unlimited ELSE Max(0, limit - usage)

\* checkUsageLimit: the returned object
checkUsageLimit(records, subs, tiers, clock, orgId, tenantId, metricName, periodStart) ==
    LET usage == getCurrentUsage(records, orgId, tenantId, metricName, periodStart)
        limitCheck == checkLimit(subs, tiers, clock, orgId, metricName, usage, tenantId)
    IN  [withinLimit |-> limitCheck.withinLimit, limit |-> limitCheck.limit,
         usage |-> usage, remaining |-> remainingOf(limitCheck.limit, usage)]

\* history: the remaining quota an earlier checkUsageLimit with the same
\* arguments returned, when the subscriptions and tiers are unchanged since
\* (this call included) and no usage was reset since
earlierRemaining(args, subsAfter) ==
    IF baseline # Null /\ subsAfter = subscriptions
    THEN {b.remaining : b \in {x \in {baseline} : x.args = args}}
    ELSE {}

CheckUsageLimit(orgId, tenantId, metricName, periodStart) ==
    LET args == <<orgId, tenantId, metricName, periodStart>>
        result == checkUsageLimit(usageRecords, subscriptions, subscriptionTiers, now,
                                  orgId, tenantId, metricName, periodStart)
    IN
    /\ subscriptions' =
           getSubscriptionStatusRows(subscriptions, subscriptionTiers, now, orgId, tenantId)
    /\ last' = [Call("checkUsageLimit", args, NoError, result)
                EXCEPT !.args = <<orgId, tenantId, metricName, periodStart,
                                  earlierRemaining(args, subscriptions')>>]
    /\ baseline' = [args |-> args, remaining |-> result.remaining]
    /\ UNCHANGED << roles, written, organizations, organizationMembers,
                    subscriptionTiers, usageRecords, tierIdsIssued, now >>

\* resetUsage: delete the rows at or before beforeDate, return how many
ResetUsage(orgId, tenantId, metricName, beforeDate) ==
    LET doomed(r) == usageMatches(r, orgId, tenantId, metricName, NoDate, beforeDate)
        kept(r) == ~doomed(r)
    IN
    /\ usageRecords' = SelectSeq(usageRecords, kept)
    /\ last' = Call("resetUsage", <<orgId, tenantId, metricName, beforeDate>>, NoError,
                    Len(SelectSeq(usageRecords, doomed)))
    /\ baseline' = Null
    /\ UNCHANGED << roles, written, organizations, organizationMembers,
                    subscriptionTiers, subscriptions, tierIdsIssued, now >>

(***************************************************************************)
(* Overlapping calls: one action per store statement of a call in flight.  *)
(***************************************************************************)
\* a call in flight that has returned or thrown
Done(op, args, error, result) ==
    [pc |-> "done", op |-> op, args |-> args, error |-> error, result |-> result]

\* the failure the store raises on a second row with a unique key
UniqueViolation == "STORE_UNIQUE_VIOLATION"

\* setDefaultRole, first statement on its own: the update that unsets the
\* defaults of the tenant (args[3]: the tenant's default roles before it)
SetDefaultRoleClear(p, tenantId, roleName) ==
    /\ inFlight[p] = Idle
    /\ roles' = clearDefaults(roles, tenantId)
    /\ inFlight' = [inFlight EXCEPT ![p] =
           [pc |-> "markDefault", op |-> "setDefaultRole",
            args |-> <<tenantId, roleName,
                       {r.name : r \in {x \in roles : x.tenantId = tenantId /\ x.isDefault}}>>]]
    /\ UNCHANGED << written, organizations, organizationMembers, subscriptionTiers,
                    subscriptions, usageRecords, tierIdsIssued, now, last, baseline,
                    matchVars, asideVars >>

\* setDefaultRole, second statement: the update that sets the named role, and
\* the check of the row it returned
SetDefaultRoleMark(p) ==
    /\ inFlight[p].pc = "markDefault"
    /\ LET c == inFlight[p] IN
       /\ roles' = markDefault(roles, c.args[1], c.args[2])
       /\ inFlight' = [inFlight EXCEPT ![p] =
              Done(c.op, c.args,
                   IF roleRows(roles, c.args[1], c.args[2]) = {}
                   THEN "ROLE_NOT_FOUND" ELSE NoError, Null)]
    /\ UNCHANGED << written, organizations, organizationMembers, subscriptionTiers,
                    subscriptions, usageRecords, tierIdsIssued, now, last, baseline,
                    matchVars, asideVars >>

\* a store that keeps one row per writer at a time: the insert replaces the
\* newest row
insertUsageRecord_ReplacesNewest(records, record) ==
    IF records = <<>> THEN <<record>>
    ELSE [records EXCEPT ![Len(records)] = record]

\* insert into usage_records: the table gains the row
insertUsageRecord(records, record) == Append(records, record)

\* recordUsage, the values of its insert: new Date() is taken by the caller
\* before the statement reaches the store (args[5]: the table at that moment)
RecordUsageValues(p, orgId, tenantId, metricName, quantity) ==
    /\ inFlight[p] = Idle
    /\ \E o \in organizations : o.id = orgId
    /\ inFlight' = [inFlight EXCEPT ![p] =
           [pc |-> "insert", op |-> "recordUsage",
            args |-> <<orgId, tenantId, metricName, quantity, usageRecords>>,
            record |-> [organizationId |-> orgId, tenantId |-> tenantId,
                        metricName |-> metricName, quantity |-> quantity,
                        timestamp |-> now]]]
    /\ UNCHANGED << storeVars, matchVars, asideVars >>

\* recordUsage, its one statement, and the return of the row
RecordUsageInsert(p) ==
    /\ inFlight[p].pc = "insert"
    /\ inFlight[p].op = "recordUsage"
    /\ LET c == inFlight[p] IN
       /\ usageRecords' = insertUsageRecord(usageRecords, c.record)
       /\ inFlight' = [inFlight EXCEPT ![p] = Done(c.op, c.args, NoError, c.record)]
    /\ UNCHANGED << roles, written, organizations, organizationMembers,
                    subscriptionTiers, subscriptions, tierIdsIssued, now, last,
                    baseline, matchVars, asideVars >>

\* subscribe, first statement: getTier, and the tier check
SubscribeGetTier(p, orgId, tierId, tenantId, expirationDate) ==
    LET tier == getTier(subscriptionTiers, tierId, tenantId)
        args == <<orgId, tierId, tenantId, expirationDate>>
    IN
    /\ inFlight[p] = Idle
    /\ \E o \in organizations : o.id = orgId
    /\ inFlight' = [inFlight EXCEPT ![p] =
           IF tier = Null THEN Done("subscribe", args, "TIER_NOT_FOUND", Null)
           ELSE [pc |-> "selectExisting", op |-> "subscribe", args |-> args,
                 tier |-> tier]]
    /\ UNCHANGED << storeVars, matchVars, asideVars >>

\* subscribe, second statement: select the organization's row
SubscribeSelectExisting(p) ==
    /\ inFlight[p].pc = "selectExisting"
    /\ LET c == inFlight[p]
           found == {x \in subscriptions : x.organizationId = c.args[1]}
       IN  \E existing \in (IF found = {} THEN {Null} ELSE found) :
               inFlight' = [inFlight EXCEPT ![p] =
                   [pc |-> IF existing = Null THEN "insert" ELSE "update",
                    op |-> c.op, args |-> c.args, tier |-> c.tier,
                    existing |-> existing]]
    /\ UNCHANGED << storeVars, matchVars, asideVars >>

\* subscribe, third statement when a row was found: update it by its id
SubscribeUpdate(p) ==
    /\ inFlight[p].pc = "update"
    /\ LET c == inFlight[p]
           changed(x) == [x EXCEPT !.tierId = c.args[2], !.status = "active",
                                   !.startDate = now, !.expirationDate = c.args[4]]
       IN  /\ subscriptions' = {IF x.id = c.existing.id THEN changed(x) ELSE x :
                                    x \in subscriptions}
           /\ \E updated \in {x \in subscriptions' : x.id = c.existing.id} :
                  inFlight' = [inFlight EXCEPT ![p] =
                      [pc |-> "setReference", op |-> c.op, args |-> c.args,
                       tier |-> c.tier, subscription |-> updated]]
    /\ baseline' = Null
    /\ UNCHANGED << roles, written, organizations, organizationMembers,
                    subscriptionTiers, usageRecords, tierIdsIssued, now, last,
                    matchVars, asideVars >>

\* subscribe, third statement when no row was found: insert one; the unique
\* index on organization_id rejects a second row of the organization and the
\* failure leaves the call
SubscribeInsert(p) ==
    /\ inFlight[p].pc = "insert"
    /\ inFlight[p].op = "subscribe"
    /\ LET c == inFlight[p]
           subscription == [id |-> Cardinality(subscriptions) + 1,
                            organizationId |-> c.args[1], tierId |-> c.args[2],
                            status |-> "active", startDate |-> now,
                            expirationDate |-> c.args[4]]
       IN  IF \E x \in subscriptions : x.organizationId = c.args[1]
           THEN /\ inFlight' = [inFlight EXCEPT ![p] =
                       Done(c.op, c.args, UniqueViolation, Null)]
                /\ UNCHANGED << subscriptions, baseline >>
           ELSE /\ subscriptions' = subscriptions \cup {subscription}
                /\ inFlight' = [inFlight EXCEPT ![p] =
                       [pc |-> "setReference", op |-> c.op, args |-> c.args,
                        tier |-> c.tier, subscription |-> subscription]]
                /\ baseline' = Null
    /\ UNCHANGED << roles, written, organizations, organizationMembers,
                    subscriptionTiers, usageRecords, tierIdsIssued, now, last,
                    matchVars, asideVars >>

\* subscribe, last statement: the organization's back-reference, and the return
SubscribeSetReference(p) ==
    /\ inFlight[p].pc = "setReference"
    /\ LET c == inFlight[p] IN
       /\ organizations' = setSubscriptionId(organizations, c.args[1], c.subscription.id)
       /\ inFlight' = [inFlight EXCEPT ![p] =
              Done(c.op, c.args, NoError,
                   SubscriptionOf(c.subscription, c.subscription.status, c.tier))]
    /\ UNCHANGED << roles, written, organizationMembers, subscriptionTiers,
                    subscriptions, usageRecords, tierIdsIssued, now, last, baseline,
                    matchVars, asideVars >>

(***************************************************************************)
(* Specifications.                                                         *)
(***************************************************************************)
\* no invitation, no session, and a rate limiter that has seen no request
NothingAside ==
    /\ invitations = {}
    /\ sessions = {}
    /\ tokensIssued = 0
    /\ rateLimitStore = [t \in Tenants |-> Null]
    /\ admitted = [t \in Tenants |-> 0]

EmptyStore ==
    /\ roles = {}
    /\ organizations = {}
    /\ organizationMembers = {}
    /\ subscriptionTiers = {}
    /\ subscriptions = {}
    /\ usageRecords = <<>>
    /\ tierIdsIssued = 0
    /\ now = 0
    /\ last = Call("none", <<>>, NoError, Null)
    /\ baseline = Null
    /\ written = {}
    /\ inFlight = [p \in Procs |-> Idle]
    /\ NothingAside

NoMatchCall ==
    /\ userPermissions = <<>>
    /\ requiredPermission = <<>>
    /\ matchResult = NotReturned

\* matchesPermission on every granted list and required string within the bounds
InitMatchSpec == InitMatch /\ EmptyStore

NextMatch == CallMatchesPermission /\ UNCHANGED << storeVars, inFlight, asideVars >>

SpecMatch == InitMatchSpec /\ [][NextMatch]_vars

\* permission strings and lists given to defineRole and updateRolePermissions
OrgStar == <<"a", ".", "*">>

OrgView == <<"a", ".", "a">>

UsageView == <<"a", "a">>

RolePermissionLists == {<<OrgView>>, <<UsageView, OrgStar>>}

RequestedPermissions == {OrgView, UsageView}

\* the (tenant, role name) pairs that get defined: t2 defines one role name
RoleSlots == {<<"t1", "owner">>, <<"t1", "member">>, <<"t2", "owner">>}

OrgIds == 1..MaxOrgs

\* the role registry alone
InitRoles == EmptyStore /\ NoMatchCall

NextRoles ==
    /\ UNCHANGED idleVars
    /\ \/ \E k \in RoleSlots, p \in RolePermissionLists, d \in BOOLEAN :
              DefineRole(k[1], k[2], p, d)
       \/ \E t \in Tenants, n \in RoleNames, p \in RolePermissionLists :
              UpdateRolePermissions(t, n, p)
       \/ \E t \in Tenants, n \in RoleNames : DeleteRole(t, n)
       \/ \E t \in Tenants, n \in RoleNames : SetDefaultRole(t, n)
       \/ \E t \in Tenants, n \in RoleNames : GetRole(t, n)
       \/ \E t \in Tenants : GetRoles(t)
       \/ \E t \in Tenants : GetDefaultRole(t)

SpecRoles == InitRoles /\ [][NextRoles]_vars

\* permission checks of the members of organizations against the role registry;
\* u1 creates the organizations, u2 is a user without any membership
InitPerm == EmptyStore /\ NoMatchCall

NextPerm ==
    /\ UNCHANGED idleVars
    /\ \/ \E k \in RoleSlots, p \in RolePermissionLists : DefineRole(k[1], k[2], p, FALSE)
       \/ \E t \in Tenants, n \in RoleNames, p \in RolePermissionLists :
              UpdateRolePermissions(t, n, p)
       \/ \E t \in Tenants, n \in RoleNames : DeleteRole(t, n)
       \/ \E n \in RoleNames : CreateOrganization("u1", "t1", n)
       \/ \E u \in Users, o \in OrgIds : GetUserRole(u, o)
       \/ \E u \in Users, o \in OrgIds, q \in RequestedPermissions, t \in Tenants :
              CheckPermission(u, o, q, t)

SpecPerm == InitPerm /\ [][NextPerm]_vars

(***************************************************************************)
(* Properties of the permission evaluator.                                 *)
(***************************************************************************)
\* the reference predicate of the wildcard rules, character by character
IsPrefixWildcard(g) ==
    /\ Len(g) >= 2
    /\ g[Len(g) - 1] = "."
    /\ g[Len(g)] = "*"

StartsWithStemAndDot(requested, g) ==
    /\ Len(requested) >= Len(g) - 1
    /\ \A k \in 1..(Len(g) - 2) : requested[k] = g[k]
    /\ requested[Len(g) - 1] = "."

Grants(g, requested) ==
    \/ g = <<"*">>
    \/ g = requested
    \/ IsPrefixWildcard(g) /\ StartsWithStemAndDot(requested, g)

RefMatches(granted, requested) ==
    \E i \in 1..Len(granted) : Grants(granted[i], requested)

\* C7: matchesPermission(granted, requested) returns true exactly when some
\* granted string is "*", or equals requested, or ends with ".*" and requested
\* starts with the string before the ".*" followed by "."
C7_MatchesReference ==
    matchResult.returned =>
        matchResult.value = RefMatches(userPermissions, requiredPermission)

\* C7 witness: "a.*" has been matched against "a.a" and granted it
C7_Witness ==
    /\ matchResult.returned
    /\ userPermissions = <<OrgStar>>
    /\ requiredPermission = OrgView
    /\ matchResult.value = TRUE

\* the memberships of a user in an organization
Memberships(userId, orgId) ==
    {m \in organizationMembers : m.userId = userId /\ m.organizationId = orgId}

\* C8: checkPermission raises no error; it returns false when the user has no
\* membership in the organization or the membership's role name has no role in
\* the given tenant, and true only when the membership exists, its role exists
\* in the tenant and the role's permissions grant the requested permission
C8_CheckPermissionNegativeOnNoData ==
    last.op = "checkPermission" =>
        LET userId == last.args[1]
            orgId == last.args[2]
            permission == last.args[3]
            tenantId == last.args[4]
            held == Memberships(userId, orgId)
        IN  /\ last.error = NoError
            /\ last.result \in BOOLEAN
            /\ held = {} => last.result = FALSE
            /\ (\A m \in held : roleRows(roles, tenantId, m.role) = {})
                   => last.result = FALSE
            /\ last.result = TRUE =>
                   \E m \in held : \E r \in roleRows(roles, tenantId, m.role) :
                       RefMatches(r.permissions, permission)

\* C8 witness: a member whose role name is defined in another tenant only was
\* checked in a tenant where the name dangles, and was denied
C8_Witness ==
    /\ last.op = "checkPermission"
    /\ last.result = FALSE
    /\ \E m \in Memberships(last.args[1], last.args[2]) :
           /\ roleRows(roles, last.args[4], m.role) = {}
           /\ \E r \in roles : r.name = m.role /\ RefMatches(r.permissions, last.args[3])

\* C9: every checkPermission for a member holding a role is evaluated against
\* the permission list most recently written to that role by defineRole or
\* updateRolePermissions, never against a list that write replaced
C9_UpdatesPropagate ==
    last.op = "checkPermission" =>
        \A m \in Memberships(last.args[1], last.args[2]) :
            \A w \in roleRows(written, last.args[4], m.role) :
                last.result = RefMatches(w.permissions, last.args[3])

\* C9 witness: a permission that the replaced list did not grant and the new
\* list grants was checked for a member holding the role, and was granted
C9_Witness ==
    /\ last.op = "checkPermission"
    /\ last.result = TRUE
    /\ \E m \in Memberships(last.args[1], last.args[2]) :
           \E w \in roleRows(written, last.args[4], m.role) :
               \E old \in w.replaced : ~RefMatches(old, last.args[3])

\* C10: each tenant has at most one role with isDefault = true
C10_AtMostOneDefault ==
    \A t \in Tenants :
        Cardinality({r \in roles : r.tenantId = t /\ r.isDefault}) <= 1

(***************************************************************************)
(* Subscription and limit specifications.                                  *)
(***************************************************************************)
MaxLimit == 1      \* largest limit a tier definition gives a metric

Features == {"analytics", "sso"}

Metrics == {"api_calls", "storage_gb"}

TierNames == {"pro"}

\* tier definitions given to defineTier: a cap on api_calls, or no cap at all;
\* no definition has a storage_gb key
TierDefinitions ==
    {[features |-> {"analytics"}, limits |-> [m \in {"api_calls"} |-> cap]] :
         cap \in 0..MaxLimit}
    \cup {[features |-> {"analytics", "sso"}, limits |-> [m \in {} |-> 0]]}

TierIds == 1..MaxTiers

SubscriptionIds == {1}

ExpirationDates == {NoDate} \cup 0..(MaxTime - 1)

\* createOrganization("u1", "t1", "owner") has run: organization 1 of tenant t1
OneOrganization ==
    /\ roles = {}
    /\ organizations = {[id |-> 1, tenantId |-> "t1", ownerId |-> "u1",
                         subscriptionId |-> NoId]}
    /\ organizationMembers = {[organizationId |-> 1, userId |-> "u1", role |-> "owner"]}
    /\ subscriptionTiers = {}
    /\ subscriptions = {}
    /\ usageRecords = <<>>
    /\ tierIdsIssued = 0
    /\ now = 0
    /\ last = Call("createOrganization", <<"u1", "t1", "owner">>, NoError, 1)
    /\ baseline = Null
    /\ written = {}
    /\ inFlight = [p \in Procs |-> Idle]
    /\ NothingAside

\* the subscription resolver; calls keyed by an organization carry the
\* organization's own tenant (the organization provider validated it), calls
\* keyed by a subscription id or tier id carry any tenant
InitSub == OneOrganization /\ NoMatchCall

NextSub ==
    /\ UNCHANGED idleVars
    /\ \/ \E t \in Tenants, n \in TierNames, d \in TierDefinitions :
              DefineTier(t, n, d.features, d.limits)
       \/ \E i \in TierIds, t \in Tenants : DeleteTier(i, t)
       \/ \E o \in organizations, i \in TierIds, e \in ExpirationDates :
              Subscribe(o.id, i, o.tenantId, e)
       \/ \E x \in SubscriptionIds, i \in TierIds, t \in Tenants :
              UpdateSubscription(x, i, t)
       \/ \E x \in SubscriptionIds : CancelSubscription(x)
       \/ \E o \in organizations : GetSubscriptionStatus(o.id, o.tenantId)
       \/ \E o \in organizations, f \in Features :
              CheckFeatureAccess(o.id, f, o.tenantId)
       \/ \E o \in organizations, m \in Metrics, u \in 0..(MaxLimit + 1) :
              CheckLimit(o.id, m, u, o.tenantId)
       \/ Tick

SpecSub == InitSub /\ [][NextSub]_vars

Quantities == 0..1

PeriodStarts == {NoDate, MaxTime}

\* the limit enforcer over the usage log of organization 1: its tenant defines
\* and redefines the tier, the organization subscribes to a defined tier,
\* records api calls and resets a metric up to the current time
InitLimit == OneOrganization /\ NoMatchCall

NextLimit ==
    /\ UNCHANGED idleVars
    /\ \/ \E n \in TierNames, d \in TierDefinitions :
              DefineTier("t1", n, d.features, d.limits)
       \/ \E o \in organizations, t \in subscriptionTiers, e \in ExpirationDates :
              Subscribe(o.id, t.id, o.tenantId, e)
       \/ \E x \in SubscriptionIds : CancelSubscription(x)
       \/ \E o \in organizations, q \in Quantities :
              RecordUsage(o.id, o.tenantId, "api_calls", q)
       \/ \E o \in organizations, m \in Metrics :
              ResetUsage(o.id, o.tenantId, m, now)
       \/ \E o \in organizations, m \in Metrics, p \in PeriodStarts :
              CheckUsageLimit(o.id, o.tenantId, m, p)
       \/ \E o \in organizations, m \in Metrics, u \in 0..(MaxLimit + 1) :
              CheckLimit(o.id, m, u, o.tenantId)
       \/ Tick

SpecLimit == InitLimit /\ [][NextLimit]_vars

\* the whole engine: every operation, on every input of the sets above
Init == EmptyStore /\ InitMatch

Next ==
    \/ NextMatch
    \/ NextRoles
    \/ NextPerm
    \/ NextSub
    \/ NextLimit
    \/ /\ UNCHANGED idleVars
       /\ \/ \E u \in Users, t \in Tenants, n \in RoleNames : CreateOrganization(u, t, n)
          \/ \E i \in TierIds, t \in Tenants : GetTier(i, t)
          \/ \E t \in Tenants : GetTiers(t)
          \/ \E o \in organizations, m \in Metrics, q \in Quantities :
                 RecordUsage(o.id, o.tenantId, m, q)
          \/ \E o \in organizations, m \in Metrics, b \in 0..MaxTime :
                 ResetUsage(o.id, o.tenantId, m, b)
          \/ \E o \in organizations, m \in Metrics, a \in PeriodStarts, b \in PeriodStarts :
                 GetUsage(o.id, o.tenantId, m, a, b)

Spec == Init /\ [][Next]_vars

(***************************************************************************)
(* Properties of the subscription resolver and the limit enforcer.         *)
(***************************************************************************)

\* a stored subscription that is active once the lazy expiration check has
\* been applied at the time of the last call
ActiveNow(x) ==
    /\ x.status = "active"
    /\ x.expirationDate = NoDate \/ ~(last.at > x.expirationDate)

\* the tier rows a subscription references, whatever their tenant
ReferencedTiers(x) == {t \in subscriptionTiers : t.id = x.tierId}

ActiveSubscriptionsOf(orgId) ==
    {x \in subscriptions : x.organizationId = orgId /\ ActiveNow(x)}

\* C1: checkFeatureAccess(org, f, tenant) returns true exactly when org has a
\* subscription row whose status after the lazy expiration check is active and
\* f is a member of the feature list of the tier the subscription references;
\* it never raises an error.
C1_FeatureAccessIff ==
    last.op = "checkFeatureAccess" =>
        /\ last.error = NoError
        /\ last.result =
               (\E x \in ActiveSubscriptionsOf(last.args[1]) :
                    \E t \in ReferencedTiers(x) : last.args[2] \in t.features)

\* C2: for an organization with an active subscription whose tier defines a
\* limit L for the metric, checkLimit returns limit = L, usage = currentUsage
\* and withinLimit = (currentUsage <= L).
C2_LimitedCheck ==
    last.op = "checkLimit" =>
        \A x \in ActiveSubscriptionsOf(last.args[1]) : \A t \in ReferencedTiers(x) :
            last.args[2] \in DOMAIN t.limits =>
                /\ last.result.limit = t.limits[last.args[2]]
                /\ last.result.usage = last.args[3]
                /\ last.result.withinLimit = (last.args[3] <= t.limits[last.args[2]])

\* C4: for an organization with an active subscription whose tier's limits map
\* has no key for the metric, checkLimit returns limit = -1 and withinLimit =
\* true for every usage value, and checkUsageLimit also returns remaining = -1.
C4_UnlimitedSentinel ==
    /\ last.op = "checkLimit" =>
           \A x \in ActiveSubscriptionsOf(last.args[1]) : \A t \in ReferencedTiers(x) :
               last.args[2] \notin DOMAIN t.limits =>
                   /\ last.result.limit = -1
                   /\ last.result.withinLimit = TRUE
    /\ last.op = "checkUsageLimit" =>
           \A x \in ActiveSubscriptionsOf(last.args[1]) : \A t \in ReferencedTiers(x) :
               last.args[3] \notin DOMAIN t.limits =>
                   /\ last.result.limit = -1
                   /\ last.result.withinLimit = TRUE
                   /\ last.result.remaining = -1

\* C3: for an organization with no active subscription (no row, or a row that
\* is cancelled or expired, also when this very call expired it), checkLimit
\* and checkUsageLimit return withinLimit = false and limit = 0 for every usage
\* and raise no error.
C3_NoActiveSubscriptionDenied ==
    (last.op \in {"checkLimit", "checkUsageLimit"}
         /\ ActiveSubscriptionsOf(last.args[1]) = {}) =>
        /\ last.error = NoError
        /\ last.result.withinLimit = FALSE
        /\ last.result.limit = 0

\* checkUsageLimit found recorded usage for an organization whose subscription
\* has expired, and denied it
C3_Witness ==
    /\ last.op = "checkUsageLimit"
    /\ \E x \in subscriptions : x.organizationId = last.args[1] /\ x.status = "expired"
    /\ last.result.usage > 0
    /\ last.result.withinLimit = FALSE
    /\ last.result.limit = 0

\* C5: every checkUsageLimit result has remaining = -1 when limit = -1 and
\* remaining = max(0, limit - usage) otherwise; apart from the sentinel,
\* remaining is never negative and is 0 whenever usage >= limit.
C5_RemainingFormula ==
    last.op = "checkUsageLimit" =>
        LET r == last.result IN
        IF r.limit = -1 THEN r.remaining = -1
        ELSE /\ r.remaining = (IF r.limit - r.usage > 0 THEN r.limit - r.usage ELSE 0)
             /\ r.remaining >= 0
             /\ r.usage >= r.limit => r.remaining = 0

\* an active, limited subscription whose recorded usage exceeds the limit
C5_Witness ==
    /\ last.op = "checkUsageLimit"
    /\ ActiveSubscriptionsOf(last.args[1]) # {}
    /\ last.result.limit # -1
    /\ last.result.usage > last.result.limit
    /\ last.result.withinLimit = FALSE
    /\ last.result.remaining = 0

SubscriptionsOfOrg(orgId) == {x \in subscriptions : x.organizationId = orgId}

\* C11: every organization has at most one subscription row; a subscribe call
\* for an organization that already has a row keeps that row, returns its id
\* with the new tier, status active and the new expiration date, and the row
\* holds these values.
C11_OneRowUpdatedInPlace ==
    /\ \A o \in organizations : Cardinality(SubscriptionsOfOrg(o.id)) <= 1
    /\ (last.op = "subscribe" /\ last.error = NoError /\ last.args[5] # {}) =>
           /\ last.result.id \in last.args[5]
           /\ last.result.tierId = last.args[2]
           /\ last.result.status = "active"
           /\ last.result.expirationDate = last.args[4]
           /\ {x.id : x \in SubscriptionsOfOrg(last.args[1])} = last.args[5]
           /\ \A x \in SubscriptionsOfOrg(last.args[1]) :
                  /\ x.tierId = last.args[2]
                  /\ x.status = "active"
                  /\ x.expirationDate = last.args[4]

\* an organization with a row subscribed again, to the second tier, later
C11_Witness ==
    /\ last.op = "subscribe"
    /\ last.error = NoError
    /\ last.args[5] # {}
    /\ last.result.tierId = 2
    /\ last.result.startDate > 0

(***************************************************************************)
(* The status of a subscription over its life: one organization, a tier    *)
(* "pro" per tenant, every write and every read of the subscription.        *)
(***************************************************************************)
ProTier == [features |-> {"analytics"}, limits |-> [m \in {"api_calls"} |-> 1]]

InitStatus == OneOrganization /\ NoMatchCall

NextStatus ==
    /\ UNCHANGED idleVars
    /\ \/ \E t \in Tenants : DefineTier(t, "pro", ProTier.features, ProTier.limits)
       \/ \E o \in organizations, t \in subscriptionTiers, e \in ExpirationDates :
              Subscribe(o.id, t.id, o.tenantId, e)
       \/ \E x \in SubscriptionIds, i \in TierIds, t \in Tenants :
              UpdateSubscription(x, i, t)
       \/ \E x \in SubscriptionIds : CancelSubscription(x)
       \/ \E o \in organizations : GetSubscriptionStatus(o.id, o.tenantId)
       \/ \E o \in organizations : CheckFeatureAccess(o.id, "analytics", o.tenantId)
       \/ \E o \in organizations : CheckLimit(o.id, "api_calls", 0, o.tenantId)
       \/ \E o \in organizations : CheckUsageLimit(o.id, o.tenantId, "api_calls", NoDate)
       \/ Tick

SpecStatus == InitStatus /\ [][NextStatus]_vars

ReadOps == {"getSubscriptionStatus", "checkFeatureAccess", "checkLimit", "checkUsageLimit"}

\* the tenant the last read was called with
ReadTenant ==
    IF last.op \in {"getSubscriptionStatus", "checkUsageLimit"} THEN last.args[2]
    ELSE IF last.op = "checkFeatureAccess" THEN last.args[3]
    ELSE last.args[4]

\* the last read reports an expired subscription
ReportsExpired ==
    IF last.op = "getSubscriptionStatus"
    THEN last.result # Null /\ last.result.status = "expired"
    ELSE IF last.op = "checkFeatureAccess" THEN last.result = FALSE
    ELSE last.result.withinLimit = FALSE /\ last.result.limit = 0

\* a read called with the tier's tenant leaves no row that is stored active
\* past its expiration date, and reports a row stored expired as expired
ReadStoresAndReportsExpiry ==
    last.op \in ReadOps =>
        \A x \in SubscriptionsOfOrg(last.args[1]) :
            (\E t \in ReferencedTiers(x) : t.tenantId = ReadTenant) =>
                /\ ~(/\ x.status = "active"
                     /\ x.expirationDate # NoDate
                     /\ last.at > x.expirationDate)
                /\ x.status = "expired" => ReportsExpired

\* this step is a subscribe call for the organization of row x
IsSubscribeFor(x) ==
    last' # last /\ last'.op = "subscribe" /\ last'.args[1] = x.organizationId

\* this step is a cancelSubscription call for row x
IsCancelOf(x) ==
    last' # last /\ last'.op = "cancelSubscription" /\ last'.args[1] = x.id

StaysExpired(x) == \E y \in subscriptions' : y.id = x.id /\ y.status = "expired"

ReportsCancelled ==
    IF last.op = "getSubscriptionStatus"
    THEN last.result = Null \/ last.result.status = "cancelled"
    ELSE IF last.op = "checkFeatureAccess" THEN last.result = FALSE
    ELSE last.result.withinLimit = FALSE /\ last.result.limit = 0

ReadReportsCancelled ==
    last.op \in ReadOps =>
        \A x \in SubscriptionsOfOrg(last.args[1]) :
            x.status = "cancelled" => ReportsCancelled

StaysCancelled(x) == \E y \in subscriptions' : y.id = x.id /\ y.status = "cancelled"

InitIsolation == OneOrganization /\ NoMatchCall

NextIsolation ==
    /\ UNCHANGED idleVars
    /\ \/ \E k \in RoleSlots, d \in BOOLEAN : DefineRole(k[1], k[2], <<OrgView>>, d)
       \/ \E t \in Tenants, n \in RoleNames : GetRole(t, n)
       \/ \E t \in Tenants : GetRoles(t)
       \/ \E t \in Tenants : GetDefaultRole(t)
       \/ \E t \in Tenants : DefineTier(t, "pro", ProTier.features, ProTier.limits)
       \/ \E i \in TierIds, t \in Tenants : GetTier(i, t)
       \/ \E t \in Tenants : GetTiers(t)
       \/ \E o \in organizations, t \in Tenants, m \in Metrics, q \in Quantities :
              RecordUsage(o.id, t, m, q)
       \/ \E o \in organizations, t \in Tenants, m \in Metrics :
              GetUsage(o.id, t, m, NoDate, NoDate)
       \/ \E t \in Tenants, m \in Metrics : GetAggregatedUsage(t, m, NoDate, NoDate)
       \/ \E o \in organizations, t \in Tenants :
              GetAllUsageMetrics(o.id, t, NoDate, NoDate)

SpecIsolation == InitIsolation /\ [][NextIsolation]_vars

\* a table without the rows of the other tenants
OfTenant(rows, tenantId) == {r \in rows : r.tenantId = tenantId}

\* the usage log without the records of the other tenants
RecordsOfTenant(records, tenantId) ==
    LET mine(r) == r.tenantId = tenantId IN SelectSeq(records, mine)

\* C14: getRole, getRoles, getDefaultRole, getTier, getTiers, getUsage,
\* getAggregatedUsage and getAllUsageMetrics called with tenant T return only
\* rows of T, and return what they return on the store that holds the rows of
\* T alone: rows of other tenants, also with the same name, id or
\* organization, change no result.
C14_ReadsIsolated ==
    /\ last.op = "getRole" =>
           LET T == last.args[1] IN
           /\ last.result = RoleOf(roleRows(OfTenant(roles, T), T, last.args[2]))
           /\ last.result # Null => last.result.tenantId = T
    /\ last.op = "getRoles" =>
           LET T == last.args[1] IN
           /\ last.result = {r \in OfTenant(roles, T) : r.tenantId = T}
           /\ \A r \in last.result : r.tenantId = T
    /\ last.op = "getDefaultRole" =>
           LET T == last.args[1]
               found == {r \in OfTenant(roles, T) : r.tenantId = T /\ r.isDefault}
           IN  /\ last.result \in (IF found = {} THEN {Null} ELSE found)
               /\ last.result # Null => last.result.tenantId = T
    /\ last.op = "getTier" =>
           LET T == last.args[2] IN
           /\ last.result = getTier(OfTenant(subscriptionTiers, T), last.args[1], T)
           /\ last.result # Null => last.result.tenantId = T
    /\ last.op = "getTiers" =>
           LET T == last.args[1] IN
           /\ last.result = {t \in OfTenant(subscriptionTiers, T) : t.tenantId = T}
           /\ \A t \in last.result : t.tenantId = T
    /\ last.op = "getUsage" =>
           LET T == last.args[2] IN
           /\ last.result = getUsage(RecordsOfTenant(usageRecords, T), last.args[1], T,
                                     last.args[3], last.args[4], last.args[5])
           /\ \A r \in Elements(last.result.records) : r.tenantId = T
    /\ last.op = "getAggregatedUsage" =>
           LET T == last.args[1] IN
           last.result = getAggregatedUsage(RecordsOfTenant(usageRecords, T), T,
                                            last.args[2], last.args[3], last.args[4])
    /\ last.op = "getAllUsageMetrics" =>
           LET T == last.args[2] IN
           last.result = getAllUsageMetrics(RecordsOfTenant(usageRecords, T),
                                            last.args[1], T, last.args[3], last.args[4])

\* getTier with tenant T finds nothing for the id of a tier of another tenant
C14_Witness ==
    /\ last.op = "getTier"
    /\ last.result = Null
    /\ \E t \in subscriptionTiers : t.id = last.args[1] /\ t.tenantId # last.args[2]

\* the tenant of the organization a subscription row belongs to
TenantsOfSubscription(x) == {o.tenantId : o \in {q \in organizations : q.id = x.organizationId}}

\* C15: updateSubscription(S, tier, T) changes subscription S only when S
\* belongs to an organization of tenant T; for an S of another tenant's
\* organization the call fails as not found and leaves S's tier and start
\* date as they were.
C15_UpdateWithinTenant ==
    [][(last' # last /\ last'.op = "updateSubscription") =>
           \A x \in subscriptions :
               (x.id = last'.args[1] /\ last'.args[3] \notin TenantsOfSubscription(x)) =>
                   /\ last'.error # NoError
                   /\ x \in subscriptions']_vars

(***************************************************************************)
(* Two callers subscribe organization 1, which has no row, to the tier of   *)
(* its tenant; their statements interleave in every order.                  *)
(***************************************************************************)
InitSubscribeRace == OneOrganization /\ NoMatchCall

NextSubscribeRace ==
    \/ DefineTier("t1", "pro", ProTier.features, ProTier.limits) /\ UNCHANGED idleVars
    \/ \E p \in Procs, o \in organizations, t \in subscriptionTiers,
          e \in ExpirationDates :
           SubscribeGetTier(p, o.id, t.id, o.tenantId, e)
    \/ \E p \in Procs : SubscribeSelectExisting(p)
    \/ \E p \in Procs : SubscribeUpdate(p)
    \/ \E p \in Procs : SubscribeInsert(p)
    \/ \E p \in Procs : SubscribeSetReference(p)
    \/ Tick /\ UNCHANGED idleVars
    \/ \E o \in organizations, t \in Tenants :
           GetOrganization(o.id, t) /\ UNCHANGED idleVars

SpecSubscribeRace == InitSubscribeRace /\ [][NextSubscribeRace]_vars

\* C16: once two subscribe calls for the organization have both ended, in
\* whatever order their statements ran, the organization has exactly one
\* subscription row and neither call has failed with a uniqueness conflict.
C16_RaceLeavesOneRowNoConflict ==
    (\A p \in Procs : inFlight[p].pc = "done" /\ inFlight[p].op = "subscribe") =>
        /\ \A p \in Procs :
               Cardinality(SubscriptionsOfOrg(inFlight[p].args[1])) = 1
        /\ \A p \in Procs : inFlight[p].error # UniqueViolation

\* C18: a getOrganization that runs while a subscribe for the organization is
\* in flight, after that subscribe has inserted the organization's row or
\* updated it to active, reports that row's id as the subscriptionId.
C18_ReaderSeesBackReference ==
    [][(/\ last' # last
        /\ last'.op = "getOrganization"
        /\ last'.result # Null) =>
           \A p \in Procs :
               (/\ inFlight[p].pc = "setReference"
                /\ inFlight[p].args[1] = last'.args[1]) =>
                   last'.result.subscriptionId = inFlight[p].subscription.id]_vars

(***************************************************************************)
(* Readers of the default role while setDefaultRole calls are in flight.    *)
(***************************************************************************)
InitDefaultRace == EmptyStore /\ NoMatchCall

NextDefaultRace ==
    \/ \E k \in RoleSlots : DefineRole(k[1], k[2], <<OrgView>>, FALSE) /\ UNCHANGED idleVars
    \/ \E t \in Tenants, n \in RoleNames : SetDefaultRole(t, n) /\ UNCHANGED idleVars
    \/ \E p \in Procs, t \in Tenants, n \in RoleNames : SetDefaultRoleClear(p, t, n)
    \/ \E p \in Procs : SetDefaultRoleMark(p)
    \/ \E t \in Tenants : GetDefaultRole(t) /\ UNCHANGED idleVars
    \/ \E t \in Tenants : GetRoles(t) /\ UNCHANGED idleVars

SpecDefaultRace == InitDefaultRace /\ [][NextDefaultRace]_vars

\* C17: a getDefaultRole or getRoles of a tenant that runs while a
\* setDefaultRole of that tenant for an existing role is in flight, the tenant
\* having had a default role when the call began, reports a default role.
C17_ReaderSeesADefault ==
    [][(/\ last' # last
        /\ last'.op \in {"getDefaultRole", "getRoles"}) =>
           \A p \in Procs :
               (/\ inFlight[p].pc = "markDefault"
                /\ inFlight[p].args[1] = last'.args[1]
                /\ inFlight[p].args[3] # {}
                /\ roleRows(roles, inFlight[p].args[1], inFlight[p].args[2]) # {}) =>
                   IF last'.op = "getDefaultRole"
                   THEN last'.result # Null
                   ELSE \E r \in last'.result : r.isDefault]_vars

(***************************************************************************)
(* Overlapping recordUsage calls for organization 1 and one metric; the     *)
(* table is first filled by calls that do not overlap.                      *)
(***************************************************************************)
InitUsageRace == OneOrganization /\ NoMatchCall

NextUsageRace ==
    \/ /\ \A p \in Procs : inFlight[p] = Idle
       /\ \E o \in organizations, q \in Quantities :
              RecordUsage(o.id, o.tenantId, "api_calls", q)
       /\ UNCHANGED idleVars
    \/ \E p \in Procs, o \in organizations, q \in Quantities :
           RecordUsageValues(p, o.id, o.tenantId, "api_calls", q)
    \/ \E p \in Procs : RecordUsageInsert(p)
    \/ Tick /\ UNCHANGED idleVars

SpecUsageRace == InitUsageRace /\ [][NextUsageRace]_vars

\* the callers whose recordUsage has returned
Recorded == {p \in Procs : inFlight[p].pc = "done"}

\* the table before the first of the calls began
TableBefore ==
    LET first == CHOOSE p \in Recorded :
                     \A q \in Recorded : Len(inFlight[p].args[5]) <= Len(inFlight[q].args[5])
    IN  inFlight[first].args[5]

RECURSIVE QuantitySum(_)
QuantitySum(callers) ==
    IF callers = {} THEN 0
    ELSE LET p == CHOOSE x \in callers : TRUE
         IN  inFlight[p].args[4] + QuantitySum(callers \ {p})

UsageTotal(records) == getUsage(records, 1, "t1", "api_calls", NoDate, NoDate).total

\* C19: once N overlapping recordUsage calls for the same organization, tenant
\* and metric have all returned, whatever the order of their statements, the
\* table holds exactly N records more than before the calls and the total
\* getUsage reports has grown by the sum of their quantities.
C19_NothingLost ==
    (Recorded # {} /\ \A p \in Procs : inFlight[p].pc \in {"idle", "done"}) =>
        /\ Len(usageRecords) = Len(TableBefore) + Cardinality(Recorded)
        /\ UsageTotal(usageRecords) = UsageTotal(TableBefore) + QuantitySum(Recorded)

\* both calls took their values before either inserted, on a table that held
\* a record, and both have returned
C19_Witness ==
    /\ Recorded = Procs
    /\ \A p \in Procs : inFlight[p].args[5] = TableBefore /\ inFlight[p].args[4] = 1
    /\ TableBefore # <<>>
    /\ UsageTotal(TableBefore) = 1

\* C20: the reads that follow a setDefaultRole(t, B) that succeeded:
\* getDefaultRole(t) returns role B with isDefault true, and getRole(t, A),
\* for a role A that was the default before the call, returns A with
\* isDefault false.
C20_LaterDefaultReplacesEarlier ==
    [][(last.op = "setDefaultRole" /\ last.error = NoError) =>
           /\ (last'.op = "getDefaultRole" /\ last'.args[1] = last.args[1]) =>
                  /\ last'.result # Null
                  /\ last'.result.name = last.args[2]
                  /\ last'.result.isDefault
           /\ (/\ last'.op = "getRole"
               /\ last'.args[1] = last.args[1]
               /\ last'.args[2] \in last.args[3] \ {last.args[2]}) =>
                  /\ last'.result # Null
                  /\ ~last'.result.isDefault]_vars

\* setDefaultRole(t, B) has succeeded on a tenant whose default was another role
C20_Witness ==
    /\ last.op = "setDefaultRole"
    /\ last.error = NoError
    /\ last.args[3] # {}
    /\ last.args[2] \notin last.args[3]

\* a role without its default flag
Definition(r) == [tenantId |-> r.tenantId, name |-> r.name, permissions |-> r.permissions]

\* C21: setDefaultRole(t, name) for a name that tenant t has no role of fails
\* with ROLE_NOT_FOUND; after it no role of t is the default, and the roles of
\* every tenant keep their names and permissions.
C21_MissingRoleLeavesNoDefault ==
    [][(/\ last' # last
        /\ last'.op = "setDefaultRole"
        /\ roleRows(roles, last'.args[1], last'.args[2]) = {}) =>
           /\ last'.error = "ROLE_NOT_FOUND"
           /\ \A r \in roles' : r.tenantId = last'.args[1] => ~r.isDefault
           /\ {Definition(r) : r \in roles'} = {Definition(r) : r \in roles}
           /\ Cardinality(roles') = Cardinality(roles)]_vars

\* the call has failed on a tenant that had a default role
C21_Witness ==
    /\ last.op = "setDefaultRole"
    /\ last.error = "ROLE_NOT_FOUND"
    /\ last.args[3] # {}
    /\ \E r \in roles : r.tenantId = last.args[1]

(***************************************************************************)
(* Calls that name a tier, a subscription or a role that may not exist.     *)
(***************************************************************************)
InitFailures == OneOrganization /\ NoMatchCall

\* subscription ids given by callers: those of rows, and one of no row
AskedSubscriptionIds == 1..(MaxOrgs + 1)

NextFailures ==
    /\ UNCHANGED idleVars
    /\ \/ \E t \in Tenants : DefineTier(t, "pro", ProTier.features, ProTier.limits)
       \/ \E o \in organizations, i \in TierIds, t \in Tenants :
              Subscribe(o.id, i, t, NoDate)
       \/ \E x \in AskedSubscriptionIds, i \in TierIds, t \in Tenants :
              UpdateSubscription(x, i, t)
       \/ \E x \in AskedSubscriptionIds : CancelSubscription(x)
       \/ DefineRole("t1", "owner", <<OrgView>>, FALSE)
       \/ \E t \in Tenants, n \in RoleNames, p \in RolePermissionLists :
              UpdateRolePermissions(t, n, p)
       \/ Tick

SpecFailures == InitFailures /\ [][NextFailures]_vars

\* the call of this step named a tier its tenant does not have
NamesMissingTier ==
    \/ last'.op = "subscribe" /\ getTier(subscriptionTiers, last'.args[2], last'.args[3]) = Null
    \/ last'.op = "updateSubscription"
           /\ getTier(subscriptionTiers, last'.args[2], last'.args[3]) = Null

\* the call of this step named a subscription id of no row (and, for
\* updateSubscription, a tier its tenant has: the tier is looked up first)
NamesMissingSubscription ==
    /\ \/ last'.op = "cancelSubscription"
       \/ last'.op = "updateSubscription" /\ ~NamesMissingTier
    /\ \A x \in subscriptions : x.id # last'.args[1]

NamesMissingRole ==
    /\ last'.op = "updateRolePermissions"
    /\ roleRows(roles, last'.args[1], last'.args[2]) = {}

\* C22: a subscribe or updateSubscription that names a tier absent from the
\* caller's tenant fails with TIER_NOT_FOUND; an updateSubscription (its tier
\* found) or cancelSubscription that names an unknown subscription id fails
\* with SUBSCRIPTION_NOT_FOUND; an updateRolePermissions on an unknown role
\* fails with ROLE_NOT_FOUND; each of these failures leaves the subscription
\* rows, the organizations and the roles as they were.
C22_TypedFailuresChangeNothing ==
    [][last' # last =>
           /\ NamesMissingTier => last'.error = "TIER_NOT_FOUND"
           /\ NamesMissingSubscription => last'.error = "SUBSCRIPTION_NOT_FOUND"
           /\ NamesMissingRole => last'.error = "ROLE_NOT_FOUND"
           /\ (NamesMissingTier \/ NamesMissingSubscription \/ NamesMissingRole) =>
                  /\ subscriptions' = subscriptions
                  /\ organizations' = organizations
                  /\ roles' = roles]_vars

\* subscribe has failed on a tier that only the other tenant has, for an
\* organization that holds a subscription row
C22_Witness ==
    /\ last.op = "subscribe"
    /\ last.error = "TIER_NOT_FOUND"
    /\ \E t \in subscriptionTiers : t.id = last.args[2] /\ t.tenantId # last.args[3]
    /\ last.args[5] # {}
    /\ roles # {}

\* C23: between calls, an organization's subscriptionId is null exactly when
\* the organization has no subscription row or its row is cancelled, and is
\* otherwise the id of the organization's one row.
C23_BackReference ==
    \A o \in organizations :
        LET rows == SubscriptionsOfOrg(o.id) IN
        IF rows = {} \/ \E x \in rows : x.status = "cancelled"
        THEN o.subscriptionId = NoId
        ELSE /\ Cardinality(rows) = 1
             /\ \A x \in rows : o.subscriptionId = x.id

\* a cancelled subscription has been moved to another tier: the row is still
\* cancelled and the organization's subscriptionId still null
C23_Witness ==
    /\ last.op = "updateSubscription"
    /\ last.error = NoError
    /\ last.result.status = "cancelled"
    /\ \E o \in organizations : o.id = last.result.organizationId /\ o.subscriptionId = NoId

\* the last call moved the organization's subscription to a tier, or redefined
\* the tier that subscription references
TierChangedFor(orgId) ==
    /\ last.error = NoError
    /\ \/ last.op = "updateSubscription" /\ last.result.organizationId = orgId
       \/ /\ last.op = "defineTier"
          /\ \E x \in SubscriptionsOfOrg(orgId) : x.tierId = last.result.id

\* the read of this step answers from tier t for subscription x
ReadUsesTier(x, t) ==
    LET active == x.status = "active" /\ ~isPastExpiration(x, now) IN
    /\ last'.op = "getSubscriptionStatus" =>
           /\ last'.result # Null
           /\ last'.result.features = t.features
           /\ last'.result.limits = t.limits
    /\ last'.op = "checkFeatureAccess" =>
           last'.result = (active /\ last'.args[2] \in t.features)
    /\ (last'.op = "checkLimit" /\ active) =>
           last'.result.limit = IF last'.args[2] \in DOMAIN t.limits
                                THEN t.limits[last'.args[2]] ELSE Unlimited

\* C24: the checkFeatureAccess, checkLimit or getSubscriptionStatus of an
\* organization that comes next after an updateSubscription of its
\* subscription, or after a defineTier of the tier it references, answers from
\* the features and limits that tier has now.
C24_TierChangePropagates ==
    [][\A o \in organizations :
           (/\ TierChangedFor(o.id)
            /\ last'.op \in {"getSubscriptionStatus", "checkFeatureAccess", "checkLimit"}
            /\ last'.args[1] = o.id) =>
               \A x \in SubscriptionsOfOrg(o.id) :
                   /\ ReferencedTiers(x) # {}
                   /\ \A t \in ReferencedTiers(x) : ReadUsesTier(x, t)]_vars

(***************************************************************************)
(* getUsage over a table that two overlapping recordUsage calls fill, for   *)
(* organization 1, either tenant and either metric.                         *)
(***************************************************************************)
InitUsageWindow == OneOrganization /\ NoMatchCall

\* the window bounds given to the reads: absent, or a time
WindowBounds == {NoDate} \cup 0..MaxTime

NextUsageWindow ==
    \/ \E p \in Procs, o \in organizations, t \in Tenants, m \in Metrics,
          q \in Quantities :
           RecordUsageValues(p, o.id, t, m, q)
    \/ \E p \in Procs : RecordUsageInsert(p)
    \/ Tick /\ UNCHANGED idleVars
    \/ \E o \in organizations, s \in WindowBounds, e \in WindowBounds :
           GetUsage(o.id, o.tenantId, "api_calls", s, e) /\ UNCHANGED idleVars

SpecUsageWindow == InitUsageWindow /\ [][NextUsageWindow]_vars

\* how often a record occurs in a sequence
Occurrences(records, r) == Cardinality({i \in DOMAIN records : records[i] = r})

\* the quantities of the first n records, added up
RECURSIVE QuantityOfFirst(_, _)
QuantityOfFirst(records, n) ==
    IF n = 0 THEN 0 ELSE records[n].quantity + QuantityOfFirst(records, n - 1)

\* the record is one a getUsage with these arguments asks for
AskedFor(r, args) ==
    /\ r.organizationId = args[1]
    /\ r.tenantId = args[2]
    /\ r.metricName = args[3]
    /\ args[4] # NoDate => args[4] <= r.timestamp
    /\ args[5] # NoDate => r.timestamp <= args[5]

\* C25: getUsage returns the stored records of the organization, tenant and
\* metric whose timestamp lies in the window (both ends included, an absent
\* end open), each as often as it is stored and no other, in ascending
\* timestamp order, and total is the sum of their quantities.
C25_GetUsageExact ==
    [][(last' # last /\ last'.op = "getUsage") =>
           LET got == last'.result.records IN
           /\ \A r \in Elements(usageRecords) \cup Elements(got) :
                  Occurrences(got, r) =
                      IF AskedFor(r, last'.args) THEN Occurrences(usageRecords, r) ELSE 0
           /\ \A i, j \in DOMAIN got : i < j => got[i].timestamp <= got[j].timestamp
           /\ last'.result.total = QuantityOfFirst(got, Len(got))]_vars

\* the read returned two records that were inserted in the other order, the
\* later one stamped with the end of the window
C25_Witness ==
    /\ last.op = "getUsage"
    /\ Len(last.result.records) = 2
    /\ Len(usageRecords) = 2
    /\ usageRecords[1].timestamp > usageRecords[2].timestamp
    /\ last.args[5] = usageRecords[1].timestamp
    /\ last.result.total = 2

(***************************************************************************)
(* getAggregatedUsage over the records of two organizations of tenant t1;   *)
(* callers record under either tenant.                                      *)
(***************************************************************************)
\* createOrganization("u1", "t1", "owner") has run twice
TwoOrganizations ==
    /\ roles = {}
    /\ organizations = {[id |-> i, tenantId |-> "t1", ownerId |-> "u1",
                         subscriptionId |-> NoId] : i \in {1, 2}}
    /\ organizationMembers = {[organizationId |-> i, userId |-> "u1", role |-> "owner"] :
                                  i \in {1, 2}}
    /\ subscriptionTiers = {}
    /\ subscriptions = {}
    /\ usageRecords = <<>>
    /\ tierIdsIssued = 0
    /\ now = 0
    /\ last = Call("createOrganization", <<"u1", "t1", "owner">>, NoError, 2)
    /\ baseline = Null
    /\ written = {}
    /\ inFlight = [p \in Procs |-> Idle]
    /\ NothingAside

InitUsageTenant == TwoOrganizations /\ NoMatchCall

NextUsageTenant ==
    \/ \E p \in Procs, o \in organizations, t \in Tenants, q \in Quantities :
           RecordUsageValues(p, o.id, t, "api_calls", q)
    \/ \E p \in Procs : RecordUsageInsert(p)
    \/ Tick /\ UNCHANGED idleVars
    \/ \E t \in Tenants, s \in PeriodStarts, e \in PeriodStarts :
           GetAggregatedUsage(t, "api_calls", s, e) /\ UNCHANGED idleVars

SpecUsageTenant == InitUsageTenant /\ [][NextUsageTenant]_vars

RECURSIVE EntryTotalSum(_)
EntryTotalSum(entries) ==
    IF entries = {} THEN 0
    ELSE LET e == CHOOSE x \in entries : TRUE
         IN  e.total + EntryTotalSum(entries \ {e})

\* the organizations with a stored record a getAggregatedUsage with these
\* arguments asks for
OrganizationsAskedFor(args) ==
    {r.organizationId : r \in {x \in Elements(usageRecords) :
         /\ x.tenantId = args[1]
         /\ x.metricName = args[2]
         /\ args[3] # NoDate => args[3] <= x.timestamp
         /\ args[4] # NoDate => x.timestamp <= args[4]}}

\* C26: getAggregatedUsage(tenant, metric, start, end) returns one entry for
\* each organization that has a matching record in the tenant and for no
\* other; an entry's total is the total getUsage gives for that organization
\* over the same window, and the top-level total is the sum of the entries'.
C26_AggregateByOrganization ==
    [][(last' # last /\ last'.op = "getAggregatedUsage") =>
           LET entries == last'.result.byOrganization
               a == last'.args
           IN
           /\ {e.organizationId : e \in entries} = OrganizationsAskedFor(a)
           /\ Cardinality(entries) = Cardinality(OrganizationsAskedFor(a))
           /\ \A e \in entries :
                  e.total = getUsage(usageRecords, e.organizationId, a[1], a[2],
                                     a[3], a[4]).total
           /\ last'.result.total = EntryTotalSum(entries)]_vars

\* both organizations have an entry, each with a record that counts
C26_Witness ==
    /\ last.op = "getAggregatedUsage"
    /\ Cardinality(last.result.byOrganization) = 2
    /\ last.result.total = 2

(***************************************************************************)
(* resetUsage among the other operations on the usage log of organization 1.*)
(***************************************************************************)
InitUsageReset == OneOrganization /\ NoMatchCall

NextUsageReset ==
    \/ \E p \in Procs, o \in organizations, t \in Tenants, m \in Metrics :
           RecordUsageValues(p, o.id, t, m, 1)
    \/ \E p \in Procs : RecordUsageInsert(p)
    \/ Tick /\ UNCHANGED idleVars
    \/ \E o \in organizations, t \in Tenants, m \in Metrics, b \in 0..MaxTime :
           ResetUsage(o.id, t, m, b) /\ UNCHANGED idleVars
    \/ \E o \in organizations :
           GetUsage(o.id, o.tenantId, "api_calls", NoDate, NoDate) /\ UNCHANGED idleVars
    \/ \E o \in organizations :
           GetAllUsageMetrics(o.id, o.tenantId, NoDate, NoDate) /\ UNCHANGED idleVars
    \/ \E o \in organizations :
           GetAggregatedUsage(o.tenantId, "api_calls", NoDate, NoDate) /\ UNCHANGED idleVars
    \/ \E o \in organizations, m \in Metrics :
           CheckUsageLimit(o.id, o.tenantId, m, NoDate) /\ UNCHANGED idleVars

SpecUsageReset == InitUsageReset /\ [][NextUsageReset]_vars

\* this step is a resetUsage (no other step leaves the callers in flight and
\* the clock as they are and has resetUsage as the last call)
IsResetUsage == last'.op = "resetUsage" /\ inFlight' = inFlight /\ now' = now

\* the record is one a resetUsage with these arguments deletes
Doomed(r, args) ==
    /\ r.organizationId = args[1]
    /\ r.tenantId = args[2]
    /\ r.metricName = args[3]
    /\ r.timestamp <= args[4]

\* C27: resetUsage(org, tenant, metric, beforeDate) removes the records of that
\* organization, tenant and metric stamped at or before beforeDate, returns
\* how many they were, and keeps every other record as often as it was
\* stored; every other step keeps each stored record in its place.
C27_OnlyResetRemoves ==
    [][IF IsResetUsage
       THEN /\ \A r \in Elements(usageRecords) \cup Elements(usageRecords') :
                   Occurrences(usageRecords', r) =
                       IF Doomed(r, last'.args) THEN 0 ELSE Occurrences(usageRecords, r)
            /\ last'.result = Len(usageRecords) - Len(usageRecords')
       ELSE /\ Len(usageRecords') >= Len(usageRecords)
            /\ \A i \in DOMAIN usageRecords : usageRecords'[i] = usageRecords[i]]_vars

\* a reset has removed one record and kept a later one of the same
\* organization, tenant and metric
C27_Witness ==
    /\ last.op = "resetUsage"
    /\ last.result = 1
    /\ Len(usageRecords) = 1
    /\ usageRecords[1].tenantId = last.args[2]
    /\ usageRecords[1].metricName = last.args[3]
    /\ usageRecords[1].timestamp > last.args[4]

\* C28: the getRole(t, n) that follows a defineRole(t, n, p, d) returns the
\* permissions p, in the order given, and the default flag d, whether the role
\* existed before or not; the tenant then has one role of that name.
C28_RoleRoundTrip ==
    [][(/\ last.op = "defineRole"
        /\ last'.op = "getRole"
        /\ last'.args[1] = last.args[1]
        /\ last'.args[2] = last.args[2]) =>
           /\ last'.result # Null
           /\ last'.result.permissions = last.args[3]
           /\ last'.result.isDefault = last.args[4]
           /\ Cardinality(roleRows(roles, last.args[1], last.args[2])) = 1]_vars

\* a defineRole has replaced the permissions and the default flag of a role
\* that existed
C28_Witness ==
    /\ last.op = "defineRole"
    /\ last.args[4]
    /\ Len(last.args[3]) = 2
    /\ \E w \in written :
           /\ RoleKey(w, last.args[1], last.args[2])
           /\ w.replaced # {}

(***************************************************************************)
(* The tier definitions of two tenants.                                     *)
(***************************************************************************)
InitTiers == EmptyStore /\ NoMatchCall

DefinedTierNames == {"free", "pro"}

NextTiers ==
    /\ UNCHANGED idleVars
    /\ \/ \E t \in Tenants, n \in DefinedTierNames, d \in TierDefinitions :
              DefineTier(t, n, d.features, d.limits)
       \/ \E i \in TierIds, t \in Tenants : GetTier(i, t)
       \/ \E t \in Tenants : GetTiers(t)
       \/ \E i \in TierIds, t \in Tenants : DeleteTier(i, t)

SpecTiers == InitTiers /\ [][NextTiers]_vars

\* C29: a defineTier for a tenant and name that has a tier returns that
\* tier's id and adds no tier; the call returns, and the getTier that follows
\* it returns, the features and limits just defined; a tenant never has two
\* tiers of one name.
C29_TierRedefinedInPlace ==
    [][/\ (last' # last /\ last'.op = "defineTier") =>
              LET existing == {t \in subscriptionTiers :
                                   t.tenantId = last'.args[1] /\ t.name = last'.args[2]}
              IN  /\ existing # {} =>
                         /\ last'.result.id \in {t.id : t \in existing}
                         /\ {t.id : t \in subscriptionTiers'} =
                                {t.id : t \in subscriptionTiers}
                  /\ last'.result.features = last'.args[3]
                  /\ last'.result.limits = last'.args[4]
       /\ (/\ last.op = "defineTier"
           /\ last'.op = "getTier"
           /\ last'.args = <<last.result.id, last.args[1]>>) =>
              /\ last'.result # Null
              /\ last'.result.features = last.args[3]
              /\ last'.result.limits = last.args[4]
       /\ \A x, y \in subscriptionTiers' :
              (x.tenantId = y.tenantId /\ x.name = y.name) => x = y]_vars

\* the first tier has been defined again after a second one was defined
C29_Witness ==
    /\ last.op = "defineTier"
    /\ last.result.id = 1
    /\ last.result.features = {"analytics", "sso"}
    /\ tierIdsIssued = 2

(***************************************************************************)
(* matchesPermission on lists of several granted permissions.               *)
(***************************************************************************)
GrantedStrings == {Star, OrgStar, OrgView, UsageView}

GrantedLists == SeqsUpTo(GrantedStrings, MaxGranted + 1)

InitMatchSet ==
    /\ userPermissions \in GrantedLists
    /\ requiredPermission \in Strings
    /\ matchResult = NotReturned
    /\ EmptyStore

SpecMatchSet == InitMatchSet /\ [][NextMatch]_vars

\* C30: matchesPermission gives the same result for every list with the same
\* permissions as the one given, in whatever order and however often each
\* occurs, and a list with all of the given permissions and more is granted
\* whatever the given list is granted.
C30_PermissionsAreASet ==
    matchResult.returned =>
        \A other \in GrantedLists :
            /\ Elements(other) = Elements(userPermissions) =>
                   matchesPermission(other, requiredPermission) = matchResult.value
            /\ (Elements(userPermissions) \subseteq Elements(other) /\ matchResult.value) =>
                   matchesPermission(other, requiredPermission)

\* the grant came from the second permission of the list
C30_Witness ==
    /\ matchResult.returned
    /\ userPermissions = <<UsageView, OrgStar>>
    /\ requiredPermission = OrgView
    /\ matchResult.value

(***************************************************************************)
(* Organization service: invitations and memberships                       *)
(* (services/permission.ts, lines 388-567).                                *)
(***************************************************************************)
MaxInvitations == 2    \* invitations created by inviteMember

Emails == {"e1", "e2"}

\* the seven days an invitation stays open, as one step of the clock
InvitationLife == 1

InvitationIds == 1..(MaxInvitations + 1)

\* select ... from invitations where id = invitationId limit 1
getInvitation(invs, invitationId) ==
    LET found == {i \in invs : i.id = invitationId}
    IN  IF found = {} THEN Null ELSE CHOOSE i \in found : TRUE

\* what inviteMember, acceptInvitation and removeMember leave as they are
memberFrame == << roles, written, organizations, subscriptionTiers, subscriptions,
                  usageRecords, tierIdsIssued, now, baseline, matchVars, inFlight,
                  sessions, tokensIssued, rateLimitStore, admitted >>

\* inviteMember: only the owner of an organization of the tenant invites
InviteMember(orgId, email, role, invitedBy, tenantId) ==
    LET org == getOrganization(organizations, orgId, tenantId)
        args == <<orgId, email, role, invitedBy, tenantId>>
        invitation == [id |-> Cardinality(invitations) + 1, organizationId |-> orgId,
                       email |-> email, role |-> role, invitedBy |-> invitedBy,
                       status |-> "pending", expiresAt |-> now + InvitationLife]
    IN
    /\ Cardinality(invitations) < MaxInvitations
    /\ IF org = Null
       THEN /\ last' = Call("inviteMember", args, "ORGANIZATION_NOT_FOUND", Null)
            /\ UNCHANGED invitations
       ELSE IF org.ownerId # invitedBy
       THEN /\ last' = Call("inviteMember", args, "INSUFFICIENT_PERMISSIONS", Null)
            /\ UNCHANGED invitations
       ELSE /\ invitations' = invitations \cup {invitation}
            /\ last' = Call("inviteMember", args, NoError, invitation)
    /\ UNCHANGED << organizationMembers, memberFrame >>

\* an update of the status that matches no invitation
markAccepted_NoRow(invs, invitationId) == invs

\* the update of acceptInvitation: set status = 'accepted' where id = invitationId
markAccepted(invs, invitationId) ==
    {IF i.id = invitationId THEN [i EXCEPT !.status = "accepted"] ELSE i : i \in invs}

\* the insert of acceptInvitation meets the unique index on (organizationId, userId)
isMember(members, orgId, userId) ==
    \E m \in members : m.organizationId = orgId /\ m.userId = userId

\* acceptInvitation: the checks in the order of the code, then the two writes
AcceptInvitation(invitationId, userId, userEmail) ==
    LET invitation == getInvitation(invitations, invitationId)
        args == <<invitationId, userId, userEmail>>
        Fails(error) == /\ last' = Call("acceptInvitation", args, error, Null)
                        /\ UNCHANGED << organizationMembers, invitations >>
    IN
    /\ IF invitation = Null THEN Fails("INVITATION_NOT_FOUND")
       ELSE IF invitation.email # userEmail THEN Fails("INVALID_INVITATION")
       ELSE IF invitation.status # "pending" THEN Fails("INVALID_INVITATION")
       ELSE IF now > invitation.expiresAt THEN Fails("INVALID_INVITATION")
       ELSE IF isMember(organizationMembers, invitation.organizationId, userId)
       THEN Fails(UniqueViolation)
       ELSE /\ organizationMembers' = organizationMembers \cup
                   {[organizationId |-> invitation.organizationId, userId |-> userId,
                     role |-> invitation.role]}
            /\ invitations' = markAccepted(invitations, invitationId)
            /\ last' = Call("acceptInvitation", args, NoError, Null)
    /\ UNCHANGED memberFrame

\* a delete that matches on the organization's other members
deleteMember_Others(members, orgId, userId) ==
    {m \in members : ~(m.organizationId = orgId /\ m.userId # userId)}

\* delete from organization_members where organizationId = orgId and userId = userId
deleteMember(members, orgId, userId) ==
    {m \in members : ~(m.organizationId = orgId /\ m.userId = userId)}

\* a removeMember without the check that protects the owner
RemoveMember_RemovesOwner(orgId, userId, removerId, tenantId) ==
    LET org == getOrganization(organizations, orgId, tenantId)
        args == <<orgId, userId, removerId, tenantId>>
        Fails(error) == /\ last' = Call("removeMember", args, error, Null)
                        /\ UNCHANGED organizationMembers
    IN
    /\ IF org = Null THEN Fails("ORGANIZATION_NOT_FOUND")
       ELSE IF org.ownerId # removerId THEN Fails("INSUFFICIENT_PERMISSIONS")
       ELSE /\ organizationMembers' = deleteMember(organizationMembers, orgId, userId)
            /\ last' = Call("removeMember", args, NoError, Null)
    /\ UNCHANGED << invitations, memberFrame >>

\* removeMember: only the owner removes, and never the owner
RemoveMember(orgId, userId, removerId, tenantId) ==
    LET org == getOrganization(organizations, orgId, tenantId)
        args == <<orgId, userId, removerId, tenantId>>
        Fails(error) == /\ last' = Call("removeMember", args, error, Null)
                        /\ UNCHANGED organizationMembers
    IN
    /\ IF org = Null THEN Fails("ORGANIZATION_NOT_FOUND")
       ELSE IF org.ownerId # removerId THEN Fails("INSUFFICIENT_PERMISSIONS")
       ELSE IF userId = org.ownerId THEN Fails("INVALID_OPERATION")
       ELSE /\ organizationMembers' = deleteMember(organizationMembers, orgId, userId)
            /\ last' = Call("removeMember", args, NoError, Null)
    /\ UNCHANGED << invitations, memberFrame >>

\* time passes until an invitation of the last instant has run out
TickPastInvitations ==
    /\ now < MaxTime + InvitationLife
    /\ now' = now + 1
    /\ UNCHANGED << roles, written, organizations, organizationMembers,
                    subscriptionTiers, subscriptions, usageRecords, tierIdsIssued,
                    last, baseline, idleVars >>

\* the roles of tenant t1 as two calls of defineRole leave them: a member's
\* permission check can succeed
MemberRoles ==
    defineRoleRows(defineRoleRows({}, "t1", "owner", <<OrgStar>>, FALSE),
                   "t1", "member", <<OrgView>>, FALSE)

MemberRolesWritten ==
    writtenAfter(writtenAfter({}, "t1", "owner", <<OrgStar>>),
                 "t1", "member", <<OrgView>>)

\* memberships under createOrganization, inviteMember, acceptInvitation and
\* removeMember, read by getUserRole and checkPermission
InitMembers ==
    /\ roles = MemberRoles
    /\ written = MemberRolesWritten
    /\ organizations = {}
    /\ organizationMembers = {}
    /\ subscriptionTiers = {}
    /\ subscriptions = {}
    /\ usageRecords = <<>>
    /\ tierIdsIssued = 0
    /\ now = 0
    /\ last = Call("defineRole", <<"t1", "member", <<OrgView>>, FALSE>>, NoError,
                   RoleOf(roleRows(MemberRoles, "t1", "member")))
    /\ baseline = Null
    /\ inFlight = [p \in Procs |-> Idle]
    /\ NothingAside
    /\ NoMatchCall

NextMembers ==
    \/ \E u \in Users : CreateOrganization(u, "t1", "owner") /\ UNCHANGED idleVars
    \/ \E o \in OrgIds, by \in Users, t \in Tenants :
           InviteMember(o, "e2", "member", by, t)
    \/ \E i \in InvitationIds, u \in Users : AcceptInvitation(i, u, "e2")
    \/ \E o \in OrgIds, u \in Users, by \in Users, t \in Tenants :
           RemoveMember(o, u, by, t)
    \/ \E u \in Users, o \in OrgIds : GetUserRole(u, o) /\ UNCHANGED idleVars
    \/ \E u \in Users, o \in OrgIds, q \in RequestedPermissions :
           CheckPermission(u, o, q, "t1") /\ UNCHANGED idleVars

SpecMembers == InitMembers /\ [][NextMembers]_vars

ownerIsMember ==
    \A o \in organizations : isMember(organizationMembers, o.id, o.ownerId)

\* C31: after any sequence of createOrganization, inviteMember, acceptInvitation
\* and removeMember the owner of every organization holds a membership in it; a
\* removeMember that targets the owner fails (with INVALID_OPERATION when the
\* owner asks, with the earlier check's error otherwise) and removes nothing
C31_OwnerStaysMember ==
    /\ ownerIsMember
    /\ \A o \in organizations :
           (/\ last.op = "removeMember"
            /\ last.args[1] = o.id
            /\ last.args[2] = o.ownerId)
           => /\ last.error # NoError
              /\ (last.args[3] = o.ownerId /\ last.args[4] = o.tenantId)
                 => last.error = "INVALID_OPERATION"

\* the owner asked to remove the owner, with a second member in the organization
C31_Witness ==
    /\ last.op = "removeMember"
    /\ last.error = "INVALID_OPERATION"
    /\ \E o \in organizations :
           /\ last.args[2] = o.ownerId
           /\ isMember(organizationMembers, o.id, o.ownerId)
           /\ \E m \in organizationMembers :
                  m.organizationId = o.id /\ m.userId # o.ownerId

\* the step is a completed removeMember asked by the owner of the organization
OwnerRemoved(userId, orgId) ==
    /\ last' # last
    /\ last'.op = "removeMember"
    /\ last'.error = NoError
    /\ last'.args[1] = orgId
    /\ last'.args[2] = userId

\* the user holds nothing in the organization: no row, no role, no permission
HoldsNothing(members, userId, orgId) ==
    /\ ~isMember(members, orgId, userId)
    /\ getUserRole(members, userId, orgId) = NoRoleName
    /\ \A q \in RequestedPermissions, t \in Tenants :
           ~checkPermission(roles, members, userId, orgId, q, t)

\* C32: once the owner's removeMember(org, user) has completed the user has no
\* membership in the organization, getUserRole returns absent and checkPermission
\* false for every permission, and this lasts until an acceptInvitation adds the
\* user again; a removeMember asked by someone who is not the owner fails with
\* INSUFFICIENT_PERMISSIONS and removes nothing
C32_RemovedMemberHoldsNothing ==
    [][/\ \A u \in Users, o \in OrgIds :
              /\ OwnerRemoved(u, o) => HoldsNothing(organizationMembers', u, o)
              /\ (/\ HoldsNothing(organizationMembers, u, o)
                  /\ ~HoldsNothing(organizationMembers', u, o))
                 => /\ last'.op \in {"acceptInvitation", "createOrganization"}
                    /\ last'.op = "createOrganization" => last'.result = o
              /\ (/\ last' # last
                  /\ last'.op = "getUserRole"
                  /\ last'.args = <<u, o>>
                  /\ HoldsNothing(organizationMembers, u, o))
                 => last'.result = NoRoleName
              /\ (/\ last' # last
                  /\ last'.op = "checkPermission"
                  /\ last'.args[1] = u
                  /\ last'.args[2] = o
                  /\ HoldsNothing(organizationMembers, u, o))
                 => last'.result = FALSE
       /\ (/\ last' # last
           /\ last'.op = "removeMember"
           /\ \E o \in organizations :
                  /\ o.id = last'.args[1]
                  /\ o.tenantId = last'.args[4]
                  /\ o.ownerId # last'.args[3])
          => /\ last'.error = "INSUFFICIENT_PERMISSIONS"
             /\ organizationMembers' = organizationMembers]_vars

\* a permission check of a removed member, who had been added by an invitation
C32_Witness ==
    /\ last.op = "checkPermission"
    /\ last.result = FALSE
    /\ \E i \in invitations :
           /\ i.status = "accepted"
           /\ ~isMember(organizationMembers, i.organizationId, last.args[1])
           /\ last.args[2] = i.organizationId
           /\ \E o \in organizations : o.id = i.organizationId /\ o.ownerId # last.args[1]

\* invitations of one organization: sent, accepted, accepted again, run out
InitInvitations == OneOrganization /\ NoMatchCall

\* the (email, role) pairs the owner invites
Invited == {<<"e1", "owner">>, <<"e2", "member">>}

NextInvitations ==
    \/ \E x \in Invited, by \in Users : InviteMember(1, x[1], x[2], by, "t1")
    \/ \E i \in InvitationIds, u \in Users, e \in Emails : AcceptInvitation(i, u, e)
    \/ RemoveMember(1, "u2", "u1", "t1")
    \/ TickPastInvitations

SpecInvitations == InitInvitations /\ [][NextInvitations]_vars

\* the step is a completed acceptInvitation
IsAccept == last' # last /\ last'.op = "acceptInvitation"

\* the membership acceptInvitation creates for the invitation and the user
MembershipFor(invitation, userId) ==
    [organizationId |-> invitation.organizationId, userId |-> userId,
     role |-> invitation.role]

\* C33: acceptInvitation succeeds only when the invitation exists, its email
\* equals the presented email, its status is pending and it has not expired; a
\* success creates the membership with the invitation's role and sets the status
\* to accepted, so that every later acceptInvitation of that invitation fails with
\* INVALID_INVITATION and adds no membership; every failure leaves the
\* memberships and the invitation as they were
C33_AcceptOnce ==
    [][/\ IsAccept =>
              LET invitation == getInvitation(invitations, last'.args[1]) IN
              IF last'.error = NoError
              THEN /\ invitation # Null
                   /\ invitation.email = last'.args[3]
                   /\ invitation.status = "pending"
                   /\ ~(now > invitation.expiresAt)
                   /\ MembershipFor(invitation, last'.args[2]) \notin organizationMembers
                   /\ organizationMembers' = organizationMembers \cup
                          {MembershipFor(invitation, last'.args[2])}
                   /\ invitations' = (invitations \ {invitation}) \cup
                          {[invitation EXCEPT !.status = "accepted"]}
              ELSE /\ organizationMembers' = organizationMembers
                   /\ invitations' = invitations
                   /\ (invitation # Null /\ invitation.status = "accepted")
                      => last'.error = "INVALID_INVITATION"
       /\ \A i \in invitations : i.status = "accepted" => i \in invitations']_vars

\* the invitation was accepted, its member is in, and the same user presenting
\* the same email in time is turned away
C33_Witness ==
    /\ last.op = "acceptInvitation"
    /\ last.error = "INVALID_INVITATION"
    /\ \E i \in invitations :
           /\ i.id = last.args[1]
           /\ i.email = last.args[3]
           /\ i.status = "accepted"
           /\ now <= i.expiresAt
           /\ MembershipFor(i, last.args[2]) \in organizationMembers

(***************************************************************************)
(* Sessions (services/auth.ts, lines 98-196).                              *)
(***************************************************************************)
MaxSessions == 2       \* session tokens issued by login

\* the configured sessionExpirationSeconds, as one step of the clock
SessionLife == 1

\* table users: the registered users; no function deletes a user
UserRows ==
    {[id |-> "u1", tenantId |-> "t1", email |-> "e1"],
     [id |-> "u2", tenantId |-> "t2", email |-> "e2"]}

\* tokens a caller presents: the issued ones and one that never was
Tokens == 1..(MaxSessions + 1)

\* what login, validateSession and logout leave as they are
sessionFrame == << roles, written, organizations, organizationMembers,
                   subscriptionTiers, subscriptions, usageRecords, tierIdsIssued,
                   baseline, matchVars, inFlight, invitations, rateLimitStore,
                   admitted >>

\* login: find the user of (email, tenant), compare the password, insert a
\* session under a fresh random token
Login(email, passwordIsValid, tenantId) ==
    LET found == {u \in UserRows : u.email = email /\ u.tenantId = tenantId}
        args == <<email, passwordIsValid, tenantId>>
        token == tokensIssued + 1
    IN
    /\ tokensIssued < MaxSessions
    /\ IF found = {} \/ ~passwordIsValid
       THEN /\ last' = Call("login", args, "INVALID_CREDENTIALS", Null)
            /\ UNCHANGED << sessions, tokensIssued >>
       ELSE LET user == CHOOSE u \in found : TRUE IN
            /\ sessions' = sessions \cup
                   {[token |-> token, userId |-> user.id, tenantId |-> tenantId,
                     expiresAt |-> now + SessionLife]}
            /\ tokensIssued' = token
            /\ last' = Call("login", args, NoError, [user |-> user, token |-> token])
    /\ UNCHANGED << now, sessionFrame >>

\* a delete that matches no session
deleteSession_NoRow(rows, token) == rows

\* delete from sessions where token = token
deleteSession(rows, token) == {s \in rows : s.token # token}

\* validateSession: null without a row; an expired row is deleted; otherwise
\* the identity of the session's user
ValidateSession(token) ==
    LET found == {s \in sessions : s.token = token} IN
    /\ IF found = {}
       THEN /\ last' = Call("validateSession", <<token>>, NoError, Null)
            /\ UNCHANGED sessions
       ELSE LET session == CHOOSE s \in found : TRUE
                users == {u \in UserRows : u.id = session.userId}
            IN  IF now > session.expiresAt
                THEN /\ sessions' = deleteSession(sessions, token)
                     /\ last' = Call("validateSession", <<token>>, NoError, Null)
                ELSE IF users = {}
                THEN /\ last' = Call("validateSession", <<token>>, NoError, Null)
                     /\ UNCHANGED sessions
                ELSE LET user == CHOOSE u \in users : TRUE IN
                     /\ last' = Call("validateSession", <<token>>, NoError,
                                     [userId |-> user.id, tenantId |-> user.tenantId,
                                      email |-> user.email])
                     /\ UNCHANGED sessions
    /\ UNCHANGED << tokensIssued, now, sessionFrame >>

\* logout: delete the session of the token
Logout(token) ==
    /\ sessions' = deleteSession(sessions, token)
    /\ last' = Call("logout", <<token>>, NoError, Null)
    /\ UNCHANGED << tokensIssued, now, sessionFrame >>

\* time passes until a session of the last instant has run out
TickPastSessions ==
    /\ now < MaxTime + SessionLife
    /\ now' = now + 1
    /\ UNCHANGED << last, tokensIssued, sessions, sessionFrame >>

InitSessions == EmptyStore /\ NoMatchCall

NextSessions ==
    \/ \E e \in Emails, ok \in BOOLEAN, t \in Tenants : Login(e, ok, t)
    \/ \E k \in Tokens : ValidateSession(k)
    \/ \E k \in Tokens : Logout(k)
    \/ TickPastSessions

SpecSessions == InitSessions /\ [][NextSessions]_vars

\* the session rows of a token, and those of every other token
sessionOf(rows, token) == {s \in rows : s.token = token}

othersThan(rows, token) == {s \in rows : s.token # token}

\* C34: validateSession(token) returns an identity only if a session row of the
\* token exists whose expiry is not in the past; after logout(token), and after an
\* expired token was presented once, the token has no row in any later state and
\* validateSession(token) returns null; the sessions of other tokens are untouched
C34_SessionEndsForGood ==
    [][/\ (last' # last /\ last'.op = "validateSession") =>
              LET token == last'.args[1] IN
              /\ last'.result # Null =>
                     \E s \in sessionOf(sessions, token) :
                         /\ ~(now > s.expiresAt)
                         /\ last'.result.userId = s.userId
              /\ (\E s \in sessionOf(sessions, token) : now > s.expiresAt)
                     => sessionOf(sessions', token) = {}
              /\ othersThan(sessions', token) = othersThan(sessions, token)
       /\ (last' # last /\ last'.op = "logout") =>
              /\ sessionOf(sessions', last'.args[1]) = {}
              /\ othersThan(sessions', last'.args[1]) = othersThan(sessions, last'.args[1])
       /\ \A k \in 1..tokensIssued :
              sessionOf(sessions, k) = {} => sessionOf(sessions', k) = {}]_vars

\* a token that was logged out before its expiry is refused while the session
\* of another token is still there
C34_Witness ==
    /\ last.op = "validateSession"
    /\ last.result = Null
    /\ last.args[1] <= tokensIssued
    /\ now = 0
    /\ sessionOf(sessions, last.args[1]) = {}
    /\ othersThan(sessions, last.args[1]) # {}

(***************************************************************************)
(* Rate limiter (middleware/metrics.test.ts, lines 244-300).               *)
(***************************************************************************)
RateLimitPerMinute == 2    \* env.RATE_LIMIT_PER_MINUTE, validated to be >= 1

\* windowMs, the minute of a window, as one step of the clock
WindowMs == 1

\* c.get('tenantId') before the API key was read
NoTenant == ""

\* what the rate limiter leaves as it is
limiterFrame == << roles, written, organizations, organizationMembers,
                   subscriptionTiers, subscriptions, usageRecords, tierIdsIssued,
                   baseline, matchVars, inFlight, invitations, sessions,
                   tokensIssued >>

\* a limiter that opens the new window at resetAt already
opensWindow_AtReset(record, time) == record = Null \/ time >= record.resetAt

\* if (!record || now > record.resetAt)
opensWindow(record, time) == record = Null \/ time > record.resetAt

\* the headers of an admitted request
RateLimitHeaders(limit, current) ==
    [limit |-> limit,
     remaining |-> IF limit - current.count > 0 THEN limit - current.count ELSE 0,
     reset |-> current.resetAt]

\* rateLimitMiddleware: skip without a tenant; otherwise open a window or count
\* the request in the open one, and throw once the count is over the limit
RateLimitMiddleware(tenantId) ==
    IF tenantId = NoTenant
    THEN /\ last' = Call("rateLimitMiddleware", <<tenantId>>, NoError, Null)
         /\ UNCHANGED << rateLimitStore, admitted, now, limiterFrame >>
    ELSE LET record == rateLimitStore[tenantId]
             limit == RateLimitPerMinute
         IN
         /\ record # Null => record.count < limit + 2
         /\ IF opensWindow(record, now)
            THEN LET current == [count |-> 1, resetAt |-> now + WindowMs] IN
                 /\ rateLimitStore' = [rateLimitStore EXCEPT ![tenantId] = current]
                 /\ admitted' = [admitted EXCEPT ![tenantId] = 1]
                 /\ last' = Call("rateLimitMiddleware", <<tenantId>>, NoError,
                                 RateLimitHeaders(limit, current))
            ELSE LET current == [record EXCEPT !.count = record.count + 1] IN
                 /\ rateLimitStore' = [rateLimitStore EXCEPT ![tenantId] = current]
                 /\ IF current.count > limit
                    THEN /\ last' = Call("rateLimitMiddleware", <<tenantId>>,
                                         "RATE_LIMIT_EXCEEDED", Null)
                         /\ UNCHANGED admitted
                    ELSE /\ last' = Call("rateLimitMiddleware", <<tenantId>>, NoError,
                                         RateLimitHeaders(limit, current))
                         /\ admitted' = [admitted EXCEPT ![tenantId] = @ + 1]
         /\ UNCHANGED << now, limiterFrame >>

\* the interval that drops the entries whose window ended a minute ago
RateLimitCleanup ==
    /\ \E t \in Tenants :
           rateLimitStore[t] # Null /\ now > rateLimitStore[t].resetAt + WindowMs
    /\ rateLimitStore' =
           [t \in Tenants |->
               IF rateLimitStore[t] # Null /\ now > rateLimitStore[t].resetAt + WindowMs
               THEN Null ELSE rateLimitStore[t]]
    /\ UNCHANGED << admitted, last, now, limiterFrame >>

\* time passes until the cleanup can drop a window of the last instant
TickPastWindows ==
    /\ now < MaxTime + 2 * WindowMs
    /\ now' = now + 1
    /\ UNCHANGED << last, rateLimitStore, admitted, limiterFrame >>

InitLimiter == EmptyStore /\ NoMatchCall

NextLimiter ==
    \/ \E t \in Tenants \cup {NoTenant} : RateLimitMiddleware(t)
    \/ RateLimitCleanup
    \/ TickPastWindows

SpecLimiter == InitLimiter /\ [][NextLimiter]_vars

\* the step is a request of the tenant that went through the limiter
IsRequestOf(t) ==
    /\ rateLimitStore'[t] # rateLimitStore[t]
    /\ rateLimitStore'[t] # Null

\* C35: per tenant and window of one minute the limiter admits at most limit
\* requests and rejects every further one with RATE_LIMIT_EXCEEDED; the first
\* request after resetAt has passed is admitted and opens a window with count 1;
\* the requests of one tenant never touch the allowance of another
C35_WindowAdmitsLimit ==
    [][\A t \in Tenants :
           /\ admitted'[t] <= RateLimitPerMinute
           /\ IsRequestOf(t) =>
                  LET record == rateLimitStore[t]
                      passed == record = Null \/ now > record.resetAt
                  IN
                  /\ last'.op = "rateLimitMiddleware"
                  /\ last'.args = <<t>>
                  /\ last'.error \in {NoError, "RATE_LIMIT_EXCEEDED"}
                  /\ passed => /\ last'.error = NoError
                               /\ rateLimitStore'[t] =
                                      [count |-> 1, resetAt |-> now + WindowMs]
                  /\ ~passed => /\ last'.error = NoError <=>
                                       admitted[t] < RateLimitPerMinute
                                /\ rateLimitStore'[t].resetAt = record.resetAt
                  /\ \A u \in Tenants \ {t} :
                         /\ rateLimitStore'[u] = rateLimitStore[u]
                         /\ admitted'[u] = admitted[u]]_vars

\* tenant t1 is over its limit in a window in which tenant t2 was admitted
C35_Witness ==
    /\ last.op = "rateLimitMiddleware"
    /\ last.args = <<"t2">>
    /\ last.error = NoError
    /\ rateLimitStore["t1"] # Null
    /\ rateLimitStore["t1"].count > RateLimitPerMinute
    /\ admitted["t1"] = RateLimitPerMinute
    /\ now <= rateLimitStore["t1"].resetAt
    /\ last.at > 0

(***************************************************************************)
(* updateSubscription and the state of the subscription.                   *)
(***************************************************************************)
\* the columns updateSubscription does not set
KeptColumns(x) ==
    [id |-> x.id, organizationId |-> x.organizationId, status |-> x.status,
     expirationDate |-> x.expirationDate]

\* the row is cancelled, expired, or past its expiration date
NotInForce(x, clock) == x.status # "active" \/ isPastExpiration(x, clock)

\* C36: updateSubscription changes only tierId and startDate of the subscription:
\* status, expirationDate and the organization's back-reference stay as they
\* were, so an expired or cancelled subscription is not active after its tier
\* was changed and the feature and limit checks of its organization stay negative
C36_UpdateKeepsStatus ==
    [][(last' # last /\ last'.op = "updateSubscription") =>
           /\ {KeptColumns(x) : x \in subscriptions'} =
                  {KeptColumns(x) : x \in subscriptions}
           /\ \A x \in subscriptions : x.id # last'.args[1] => x \in subscriptions'
           /\ organizations' = organizations
           /\ \A x \in subscriptions, o \in organizations :
                  (x.organizationId = o.id /\ NotInForce(x, now)) =>
                      /\ \A y \in subscriptions' : y.id = x.id => NotInForce(y, now)
                      /\ \A f \in ProTier.features :
                             ~checkFeatureAccess(subscriptions', subscriptionTiers', now,
                                                 o.id, f, o.tenantId)
                      /\ ~checkLimit(subscriptions', subscriptionTiers', now, o.id,
                                     "api_calls", 0, o.tenantId).withinLimit]_vars

\* the tier of a subscription stored as expired was changed at this instant
C36_Witness ==
    /\ last.op = "updateSubscription"
    /\ last.error = NoError
    /\ last.at = now
    /\ \E x \in subscriptions :
           /\ x.id = last.args[1]
           /\ x.status = "expired"
           /\ x.tierId = last.args[2]
           /\ x.startDate = now
           /\ x.expirationDate < now

(***************************************************************************)
(* Two callers define the tier of one (tenantId, name); the statements of   *)
(* defineTier (services/auth.test.ts, lines 253-311) interleave.            *)
(***************************************************************************)
\* defineTier, first statement: select the tier of the tenant and name, limit 1
DefineTierSelect(p, tenantId, name, features, limits) ==
    LET found == {t \in subscriptionTiers : t.tenantId = tenantId /\ t.name = name}
        args == <<tenantId, name, features, limits>>
    IN
    /\ inFlight[p] = Idle
    /\ \E existing \in (IF found = {} THEN {Null} ELSE found) :
           inFlight' = [inFlight EXCEPT ![p] =
               [pc |-> IF existing = Null THEN "insertTier" ELSE "updateTier",
                op |-> "defineTier", args |-> args, existing |-> existing]]
    /\ UNCHANGED << storeVars, matchVars, asideVars >>

\* defineTier, second statement when a row was found: update it by its id
DefineTierUpdate(p) ==
    /\ inFlight[p].pc = "updateTier"
    /\ LET c == inFlight[p] IN
       /\ subscriptionTiers' =
              {IF t.id = c.existing.id
               THEN [t EXCEPT !.features = c.args[3], !.limits = c.args[4]]
               ELSE t : t \in subscriptionTiers}
       /\ inFlight' = [inFlight EXCEPT ![p] =
              Done(c.op, c.args, NoError,
                   getTier(subscriptionTiers', c.existing.id, c.args[1]))]
    /\ baseline' = Null
    /\ UNCHANGED << roles, written, organizations, organizationMembers, subscriptions,
                    usageRecords, tierIdsIssued, now, last, matchVars, asideVars >>

\* defineTier, second statement when no row was found: insert a row; the table
\* has no unique index on (tenant_id, name)
DefineTierInsert(p) ==
    /\ inFlight[p].pc = "insertTier"
    /\ tierIdsIssued < MaxTiers
    /\ LET c == inFlight[p] IN
       /\ tierIdsIssued' = tierIdsIssued + 1
       /\ subscriptionTiers' = subscriptionTiers \cup
              {[id |-> tierIdsIssued', tenantId |-> c.args[1], name |-> c.args[2],
                features |-> c.args[3], limits |-> c.args[4]]}
       /\ inFlight' = [inFlight EXCEPT ![p] =
              Done(c.op, c.args, NoError,
                   getTier(subscriptionTiers', tierIdsIssued', c.args[1]))]
    /\ baseline' = Null
    /\ UNCHANGED << roles, written, organizations, organizationMembers, subscriptions,
                    usageRecords, now, last, matchVars, asideVars >>

InitTierRace == EmptyStore /\ NoMatchCall

NextTierRace ==
    \/ \E p \in Procs, d \in TierDefinitions :
           DefineTierSelect(p, "t1", "pro", d.features, d.limits)
    \/ \E p \in Procs : DefineTierUpdate(p)
    \/ \E p \in Procs : DefineTierInsert(p)
    \/ \E t \in Tenants : GetTiers(t) /\ UNCHANGED idleVars

SpecTierRace == InitTierRace /\ [][NextTierRace]_vars

\* C37: after concurrent defineTier calls with the same (tenantId, name), in
\* whatever order their statements ran, at most one tier row with that
\* (tenantId, name) exists
C37_RaceLeavesOneTier ==
    (\A p \in Procs : inFlight[p].pc = "done" /\ inFlight[p].op = "defineTier") =>
        \A p \in Procs :
            Cardinality({t \in subscriptionTiers :
                            /\ t.tenantId = inFlight[p].args[1]
                            /\ t.name = inFlight[p].args[2]}) <= 1

(***************************************************************************)
(* getSubscriptionStatus (services/auth.test.ts, lines 520-568) statement   *)
(* by statement, while a subscribe for the organization is in flight.       *)
(***************************************************************************)
\* getSubscriptionStatus, first statement: select the organization's row
StatusSelect(p, orgId, tenantId) ==
    LET found == {x \in subscriptions : x.organizationId = orgId}
        args == <<orgId, tenantId>>
    IN
    /\ inFlight[p] = Idle
    /\ \E subscription \in (IF found = {} THEN {Null} ELSE found) :
           inFlight' = [inFlight EXCEPT ![p] =
               IF subscription = Null
               THEN Done("getSubscriptionStatus", args, NoError, Null)
               ELSE [pc |-> "statusGetTier", op |-> "getSubscriptionStatus",
                     args |-> args, subscription |-> subscription]]
    /\ UNCHANGED << storeVars, matchVars, asideVars >>

\* getSubscriptionStatus, second statement: getTier, then the expiry test on
\* the row that was read
StatusGetTier(p) ==
    /\ inFlight[p].pc = "statusGetTier"
    /\ LET c == inFlight[p]
           tier == getTier(subscriptionTiers, c.subscription.tierId, c.args[2])
       IN  inFlight' = [inFlight EXCEPT ![p] =
               IF tier = Null THEN Done(c.op, c.args, NoError, Null)
               ELSE IF isPastExpiration(c.subscription, now)
               THEN [pc |-> "markExpired", op |-> c.op, args |-> c.args,
                     subscription |-> c.subscription, tier |-> tier]
               ELSE Done(c.op, c.args, NoError,
                         SubscriptionOf(c.subscription, c.subscription.status, tier))]
    /\ UNCHANGED << storeVars, matchVars, asideVars >>

\* getSubscriptionStatus, last statement: set status = 'expired' where id
StatusMarkExpired(p) ==
    /\ inFlight[p].pc = "markExpired"
    /\ LET c == inFlight[p] IN
       /\ subscriptions' = {IF x.id = c.subscription.id
                            THEN [x EXCEPT !.status = "expired"] ELSE x :
                                x \in subscriptions}
       /\ inFlight' = [inFlight EXCEPT ![p] =
              Done(c.op, c.args, NoError,
                   SubscriptionOf(c.subscription, "expired", c.tier))]
    /\ baseline' = IF subscriptions' = subscriptions THEN baseline ELSE Null
    /\ UNCHANGED << roles, written, organizations, organizationMembers,
                    subscriptionTiers, usageRecords, tierIdsIssued, now, last,
                    matchVars, asideVars >>

\* organization 1 is subscribed by a call that runs alone; then a subscribe and
\* a getSubscriptionStatus for it overlap
InitStatusRace == OneOrganization /\ NoMatchCall

NextStatusRace ==
    \/ DefineTier("t1", "pro", ProTier.features, ProTier.limits) /\ UNCHANGED idleVars
    \/ \E o \in organizations, t \in subscriptionTiers, e \in ExpirationDates :
           Subscribe(o.id, t.id, o.tenantId, e) /\ UNCHANGED idleVars
    \/ \E p \in Procs, o \in organizations, t \in subscriptionTiers,
          e \in ExpirationDates :
           SubscribeGetTier(p, o.id, t.id, o.tenantId, e)
    \/ \E p \in Procs : SubscribeSelectExisting(p)
    \/ \E p \in Procs : SubscribeUpdate(p)
    \/ \E p \in Procs : SubscribeInsert(p)
    \/ \E p \in Procs : SubscribeSetReference(p)
    \/ \E p \in Procs, o \in organizations : StatusSelect(p, o.id, o.tenantId)
    \/ \E p \in Procs : StatusGetTier(p)
    \/ \E p \in Procs : StatusMarkExpired(p)
    \/ Tick /\ UNCHANGED idleVars

SpecStatusRace == InitStatusRace /\ [][NextStatusRace]_vars

\* C38: in every state reached by interleaved subscribe and
\* getSubscriptionStatus calls for an organization, a subscription stored as
\* expired has an expirationDate, and that date is in the past
C38_ExpiredIsPast ==
    \A x \in subscriptions :
        x.status = "expired" => x.expirationDate # NoDate /\ x.expirationDate < now

(***************************************************************************)
(* cancelSubscription (services/auth.test.ts, lines 498-518) statement by   *)
(* statement, while a subscribe for the organization is in flight.          *)
(***************************************************************************)
\* cancelSubscription, first statement: set status = 'cancelled' where id,
\* returning the row
CancelMark(p, subscriptionId) ==
    LET found == {x \in subscriptions : x.id = subscriptionId}
        args == <<subscriptionId>>
    IN
    /\ inFlight[p] = Idle
    /\ subscriptions' = {IF x.id = subscriptionId
                         THEN [x EXCEPT !.status = "cancelled"] ELSE x :
                             x \in subscriptions}
    /\ IF found = {}
       THEN /\ inFlight' = [inFlight EXCEPT ![p] =
                   Done("cancelSubscription", args, "SUBSCRIPTION_NOT_FOUND", Null)]
            /\ UNCHANGED baseline
       ELSE /\ \E subscription \in {x \in subscriptions' : x.id = subscriptionId} :
                   inFlight' = [inFlight EXCEPT ![p] =
                       [pc |-> "clearReference", op |-> "cancelSubscription",
                        args |-> args, subscription |-> subscription]]
            /\ baseline' = Null
    /\ UNCHANGED << roles, written, organizations, organizationMembers,
                    subscriptionTiers, usageRecords, tierIdsIssued, now, last,
                    matchVars, asideVars >>

\* cancelSubscription, second statement: the organization's subscriptionId = null
CancelClearReference(p) ==
    /\ inFlight[p].pc = "clearReference"
    /\ LET c == inFlight[p] IN
       /\ organizations' =
              setSubscriptionId(organizations, c.subscription.organizationId, NoId)
       /\ inFlight' = [inFlight EXCEPT ![p] = Done(c.op, c.args, NoError, Null)]
    /\ UNCHANGED << roles, written, organizationMembers, subscriptionTiers,
                    subscriptions, usageRecords, tierIdsIssued, now, last, baseline,
                    matchVars, asideVars >>

\* organization 1 is subscribed by a call that runs alone; then a
\* cancelSubscription and a subscribe for it overlap
InitCancelRace == OneOrganization /\ NoMatchCall

NextCancelRace ==
    \/ DefineTier("t1", "pro", ProTier.features, ProTier.limits) /\ UNCHANGED idleVars
    \/ \E o \in organizations, t \in subscriptionTiers :
           Subscribe(o.id, t.id, o.tenantId, NoDate) /\ UNCHANGED idleVars
    \/ \E p \in Procs, o \in organizations, t \in subscriptionTiers,
          e \in ExpirationDates :
           SubscribeGetTier(p, o.id, t.id, o.tenantId, e)
    \/ \E p \in Procs : SubscribeSelectExisting(p)
    \/ \E p \in Procs : SubscribeUpdate(p)
    \/ \E p \in Procs : SubscribeInsert(p)
    \/ \E p \in Procs : SubscribeSetReference(p)
    \/ \E p \in Procs, x \in SubscriptionIds : CancelMark(p, x)
    \/ \E p \in Procs : CancelClearReference(p)
    \/ \E o \in organizations : GetOrganization(o.id, o.tenantId) /\ UNCHANGED idleVars

SpecCancelRace == InitCancelRace /\ [][NextCancelRace]_vars

\* one call is a cancelSubscription, the other a subscribe, and both have ended
BothEnded ==
    /\ \A p \in Procs : inFlight[p].pc = "done"
    /\ \E p \in Procs : inFlight[p].op = "cancelSubscription"
    /\ \E p \in Procs : inFlight[p].op = "subscribe"

\* C39: once an interleaved cancelSubscription and subscribe for an organization
\* have both completed, the organization's subscriptionId points to its
\* subscription if that is stored as active and is null if it is stored as
\* cancelled
C39_ReferenceFollowsStatus ==
    BothEnded =>
        \A o \in organizations, x \in subscriptions :
            x.organizationId = o.id =>
                /\ x.status = "active" => o.subscriptionId = x.id
                /\ x.status = "cancelled" => o.subscriptionId = NoId

(***************************************************************************)
(* Two callers accept one pending invitation; the statements of             *)
(* acceptInvitation (services/permission.ts, lines 465-515) interleave.     *)
(***************************************************************************)
\* the users who present the invitation's email: neither is in the organization
Accepters == {"u2", "u3"}

\* acceptInvitation, first statement: select the invitation, then the checks
AcceptSelect(p, invitationId, userId, userEmail) ==
    LET invitation == getInvitation(invitations, invitationId)
        args == <<invitationId, userId, userEmail>>
        Fails(error) == Done("acceptInvitation", args, error, Null)
    IN
    /\ inFlight[p] = Idle
    /\ inFlight' = [inFlight EXCEPT ![p] =
           IF invitation = Null THEN Fails("INVITATION_NOT_FOUND")
           ELSE IF invitation.email # userEmail THEN Fails("INVALID_INVITATION")
           ELSE IF invitation.status # "pending" THEN Fails("INVALID_INVITATION")
           ELSE IF now > invitation.expiresAt THEN Fails("INVALID_INVITATION")
           ELSE [pc |-> "insertMember", op |-> "acceptInvitation", args |-> args,
                 invitation |-> invitation]]
    /\ UNCHANGED << storeVars, matchVars, asideVars >>

\* acceptInvitation, second statement: insert the membership; the unique index
\* on (organization_id, user_id) rejects a second row of the user
AcceptInsertMember(p) ==
    /\ inFlight[p].pc = "insertMember"
    /\ LET c == inFlight[p] IN
       IF isMember(organizationMembers, c.invitation.organizationId, c.args[2])
       THEN /\ inFlight' = [inFlight EXCEPT ![p] =
                   Done(c.op, c.args, UniqueViolation, Null)]
            /\ UNCHANGED organizationMembers
       ELSE /\ organizationMembers' = organizationMembers \cup
                   {[organizationId |-> c.invitation.organizationId,
                     userId |-> c.args[2], role |-> c.invitation.role]}
            /\ inFlight' = [inFlight EXCEPT ![p] =
                   [pc |-> "markAccepted", op |-> c.op, args |-> c.args,
                    invitation |-> c.invitation]]
    /\ UNCHANGED << roles, written, organizations, subscriptionTiers, subscriptions,
                    usageRecords, tierIdsIssued, now, last, baseline, matchVars,
                    asideVars >>

\* acceptInvitation, last statement: set status = 'accepted' where id
AcceptMarkAccepted(p) ==
    /\ inFlight[p].pc = "markAccepted"
    /\ LET c == inFlight[p] IN
       /\ invitations' = markAccepted(invitations, c.args[1])
       /\ inFlight' = [inFlight EXCEPT ![p] = Done(c.op, c.args, NoError, Null)]
    /\ UNCHANGED << storeVars, matchVars, sessions, tokensIssued, rateLimitStore,
                    admitted >>

\* the owner of organization 1 invites; then two acceptInvitation calls overlap
InitAcceptRace == OneOrganization /\ NoMatchCall

NextAcceptRace ==
    \/ \E e \in Emails : InviteMember(1, e, "member", "u1", "t1")
    \/ \E p \in Procs, i \in InvitationIds, u \in Accepters, e \in Emails :
           AcceptSelect(p, i, u, e)
    \/ \E p \in Procs : AcceptInsertMember(p)
    \/ \E p \in Procs : AcceptMarkAccepted(p)
    \/ \E u \in Accepters : GetUserRole(u, 1) /\ UNCHANGED idleVars

SpecAcceptRace == InitAcceptRace /\ [][NextAcceptRace]_vars

\* the calls that accepted the invitation
AcceptedBy(invitationId) ==
    {p \in Procs : /\ inFlight[p].pc = "done"
                   /\ inFlight[p].op = "acceptInvitation"
                   /\ inFlight[p].args[1] = invitationId
                   /\ inFlight[p].error = NoError}

\* the memberships those calls created
CreatedFrom(invitation) ==
    {MembershipFor(invitation, inFlight[p].args[2]) : p \in AcceptedBy(invitation.id)}
        \cap organizationMembers

\* C40: of the concurrent acceptInvitation calls for one pending invitation, by
\* the same or by different users presenting its email, at most one succeeds
\* and at most one membership is created from the invitation
C40_InvitationAcceptedOnce ==
    \A i \in invitations :
        /\ Cardinality(AcceptedBy(i.id)) <= 1
        /\ Cardinality(CreatedFrom(i)) <= 1

====
